---- MODULE Spec2Model ----
(***************************************************************************)
(* A model of the bpftrace AST pass infrastructure:                        *)
(*   - PassManager (src/src/ast/pass_manager.cpp): add and foreach;        *)
(*   - ErrorOr (src/src/ast/error.h): results carrying errors and warnings;*)
(*   - Expression::FutureType (src/src/ast/ast.h, ast.cpp): deferred types;*)
(*   - Visitor (src/src/ast/visitor.h) and ASTContext (ast.h): traversal;  *)
(*   - the ReturnPathAnalyser, PortabilityAnalyser, NodeCounter,           *)
(*     FoldConstants and ConfigAnalyser passes (src/src/ast/passes);       *)
(*   - the type rules of FieldAccess and Binop (ast.cpp);                  *)
(*   - FunctionRegistry (src/unnamed/part_000): add and get.               *)
(* Each subsystem has its own specification over its own variables.        *)
(***************************************************************************)
EXTENDS Integers, Sequences, FiniteSets, TLC

VARIABLES
  \* PassManager
  passes_,    \* std::vector<Pass>: the registered passes, in order
  outputs_,   \* std::unordered_map<int,int>: set of <<type_id, pass_id>>
  aborted,    \* the process has been aborted by LOG(BUG)
  pc,         \* "idle", or "foreach" while PassManager::foreach is looping
  idx,        \* foreach: 0-based position of the loop in passes_
  warnings,   \* foreach: the local `Diagnostics warnings`
  invoked,    \* foreach: pass ids handed to fn so far in this run, in order
  fnres,      \* foreach: what fn returned for each of them
  ret,        \* what the last completed foreach returned
  lastAdd     \* the last add() call: its argument, and passes_ and outputs_ on entry

pmVars ==
  <<passes_, outputs_, aborted, pc, idx, warnings, invoked, fnres, ret, lastAdd>>

VARIABLES
  \* Expressions and their deferred types
  nodes_,     \* ASTContext::nodes_: the expression nodes, in creation order
  stack,      \* the parser's stack: the nodes that have no parent yet
  type_,      \* VariableTypeExpression::type_ per node: 0 (empty optional) or
              \* the node whose type() was handed to set_type
  thunks,     \* running_ and result_ of every FutureType held in some type_
  crashed,    \* the process died while resolving a type
  last        \* what the last access to an expression's type did

ftVars == <<nodes_, stack, type_, thunks, crashed, last>>

VARIABLES
  \* ErrorOr results being combined
  operands,   \* the results constructed so far, in order: first, second, third
  merged,     \* what ErrorOr(first, second) constructed, once it has run
  nested      \* three results merged both ways, once that has run: from the
              \* left as Visitor::merge does, and from the right as a parent
              \* does with the result its child merged

eoVars == <<operands, merged, nested>>

VARIABLES
  \* A Visitor traversing a tree
  vnodes,     \* ASTContext::nodes_: the nodes of the tree, in creation order
  vstack,     \* the parser's stack: the nodes that have no parent yet
  argOrder,   \* the order in which this build evaluates call arguments,
              \* "unknown" until a traversal has shown it
  trav        \* the last traversal: its events, its result, the tree before it

viVars == <<vnodes, vstack, argOrder, trav>>

VARIABLES
  \* The return-path pass
  rnodes,     \* ASTContext::nodes_: statements and functions, in creation order
  rstack,     \* the parser's stack: the nodes that have no parent yet
  analysis    \* what the pass did, once it has run

rpVars == <<rnodes, rstack, analysis>>

VARIABLES
  \* The portability pass and the node-count pass
  pnodes,     \* ASTContext::nodes_: the nodes of the program, in creation order
  pstack,     \* the parser's stack: the nodes that have no parent yet
  port,       \* what the portability pass did, once it has run
  counter     \* what the node-count pass did, once it has run

poVars == <<pnodes, pstack, port, counter>>

VARIABLES
  \* The constant-folding pass
  fnodes,     \* ASTContext::nodes_: the expression nodes, in creation order
  fstack,     \* the parser's stack: the expressions that have no parent yet
  folding     \* what the pass did, once it has run

foVars == <<fnodes, fstack, folding>>

VARIABLES
  \* The config pass
  assignments, \* Config::stmts: the AssignConfigVarStatements, in order
  config_,     \* BPFtrace::config_: the value of every option
  configured   \* what the pass did, once it has run

cfVars == <<assignments, config_, configured>>

VARIABLES
  \* The type rules on their own
  resolved    \* the last type rule applied: its operands and what it returned

rlVars == <<resolved>>

VARIABLES
  \* FunctionRegistry
  all_funcs_,          \* the functions the registry owns, in the order added
  funcs_by_fq_name_,   \* per qualified name, references into all_funcs_
  added,               \* what the last add returned (0 is nullptr)
  lastGet              \* the last get: its arguments, the registry size, its result

frVars == <<all_funcs_, funcs_by_fq_name_, added, lastGet>>

vars == <<pmVars, ftVars, eoVars, viVars, rpVars, poVars, foVars, cfVars, rlVars, frVars>>

\* What the operations of one subsystem leave alone: the other subsystems.
pmOthers == <<ftVars, eoVars, viVars, rpVars, poVars, foVars, cfVars, rlVars, frVars>>
ftOthers == <<pmVars, eoVars, viVars, rpVars, poVars, foVars, cfVars, rlVars, frVars>>
eoOthers == <<pmVars, ftVars, viVars, rpVars, poVars, foVars, cfVars, rlVars, frVars>>
viOthers == <<pmVars, ftVars, eoVars, rpVars, poVars, foVars, cfVars, rlVars, frVars>>
rpOthers == <<pmVars, ftVars, eoVars, viVars, poVars, foVars, cfVars, rlVars, frVars>>
poOthers == <<pmVars, ftVars, eoVars, viVars, rpVars, foVars, cfVars, rlVars, frVars>>
foOthers == <<pmVars, ftVars, eoVars, viVars, rpVars, poVars, cfVars, rlVars, frVars>>
cfOthers == <<pmVars, ftVars, eoVars, viVars, rpVars, poVars, foVars, rlVars, frVars>>
rlOthers == <<pmVars, ftVars, eoVars, viVars, rpVars, poVars, foVars, cfVars, frVars>>
frOthers == <<pmVars, ftVars, eoVars, viVars, rpVars, poVars, foVars, cfVars, rlVars>>

-----------------------------------------------------------------------------
(* Bounds *)

MaxPasses == 2
MaxIO == 2
MaxWarn == 2
MaxErr == 1
MaxNodes == 3
MaxVars == 2
MaxElems == 2
MaxDepth == 12
MaxDiags == 2
MaxTreeNodes == 4
MaxStmtNodes == 4
MaxPortNodes == 6
MaxFoldNodes == 5
MaxAssigns == 2
MaxFuncs == 2

\* Capability types a pass can name (PassContext type ids).
TypeIds == {"X", "Y"}

-----------------------------------------------------------------------------
(* Sequences helpers *)

SeqsUpTo(S, n) == UNION {[1..k -> S] : k \in 0..n}

-----------------------------------------------------------------------------
(* ErrorOr<T> (error.h).  result_ is a variant: a value (ok) or the error   *)
(* Diagnostics; warnings_ rides along in both cases.  The value itself is  *)
(* std::monostate for ErrorOrSuccess and is not represented.               *)

\* ErrorOr(T&&, Diagnostics&& w) / Success(Diagnostics&&)
Success(w) == [ok |-> TRUE, errs |-> <<>>, warns |-> w]

\* ErrorOr(Diagnostics&& errs, Diagnostics&& w)
Failure(e, w) == [ok |-> FALSE, errs |-> e, warns |-> w]

\* template <typename U> ErrorOr(const ErrorOr<U>& other): copies the errors
\* and the warnings of a failed result.
ConvertFailed(other) == [ok |-> FALSE, errs |-> other.errs, warns |-> other.warns]

ConvertFailedWithWarningsDropped(other, w) == ConvertFailed(other)
\* template <typename U> ErrorOr(const ErrorOr<U>& other, Diagnostics&& w):
\* delegates to the constructor above, then appends w to warnings_.
ConvertFailedWithWarnings(other, w) ==
  LET r == ConvertFailed(other) IN [r EXCEPT !.warns = r.warns \o w]

\* T&& unwrap(Diagnostics& warnings): appends warnings_ to the caller's list.
Unwrap(r, w) == w \o r.warns

\* `!ok` in the merging constructor names the member function without
\* calling it: a function designator is never null, so its negation is false.
NotOk(first) == FALSE

MergeDropsWarningsOfFailed(first, second) ==
  [ok |-> first.ok /\ second.ok,
   errs |-> IF first.ok THEN second.errs ELSE first.errs,
   warns |-> IF second.ok THEN first.warns \o second.warns ELSE first.warns]

MergeKeepsFirst(first, second) ==
  [ok |-> first.ok, errs |-> first.errs, warns |-> first.warns \o second.warns]

\* ErrorOr(ErrorOr<T>&& first, ErrorOr<T>&& second): result_ and warnings_
\* start as first's; second's errors replace a value; the branch for two
\* failures is guarded by `!ok`; second's warnings are appended.
Merge(first, second) ==
  LET errs == IF first.ok /\ ~second.ok THEN second.errs
              ELSE IF NotOk(first) /\ ~second.ok THEN first.errs \o second.errs
              ELSE first.errs
  IN [ok |-> first.ok /\ second.ok, errs |-> errs,
      warns |-> first.warns \o second.warns]

\* The diagnostics that the results built here carry.
ErrorDiags == {"e1", "e2"}
WarningDiags == {"w1"}

\* Nothing has been merged yet.
NotMerged == [done |-> FALSE, res |-> Success(<<>>)]

\* Nothing has been merged three ways yet.
NotNested == [done |-> FALSE, left |-> Success(<<>>), right |-> Success(<<>>)]

\* Two results are constructed and merged before a third one arrives.
CanConstruct == Len(operands) < 2 \/ (Len(operands) = 2 /\ merged.done)

\* A value is returned, with the warnings collected on the way.
MakeSuccess(w) ==
  /\ CanConstruct
  /\ operands' = Append(operands, Success(w))
  /\ UNCHANGED <<merged, nested>>
  /\ UNCHANGED eoOthers

\* Errors are returned, with the warnings collected on the way.  The
\* constructor takes the Diagnostics as they are: nothing looks at their
\* number.
MakeFailure(e, w) ==
  /\ CanConstruct
  /\ operands' = Append(operands, Failure(e, w))
  /\ UNCHANGED <<merged, nested>>
  /\ UNCHANGED eoOthers

\* R(std::move(first), std::move(second))
MergeOperands ==
  /\ Len(operands) = 2
  /\ ~merged.done
  /\ merged' = [done |-> TRUE, res |-> Merge(operands[1], operands[2])]
  /\ UNCHANGED <<operands, nested>>
  /\ UNCHANGED eoOthers

-----------------------------------------------------------------------------
(* PassManager::add *)

\* A pass as PassManager sees it: its declared inputs() and outputs().
Passes == [inputs : SeqsUpTo(TypeIds, MaxIO), outputs : SeqsUpTo(TypeIds, MaxIO)]

\* outputs_.contains(type_id)
Contains(outs, t) == \E e \in outs : e[1] = t

\* outputs_[type_id]
Producer(outs, t) == (CHOOSE e \in outs : e[1] = t)[2]

\* outputs_.emplace(type_id, pass_id): no effect when the key is present.
Emplace(outs, t, p) == IF Contains(outs, t) THEN outs ELSE outs \cup {<<t, p>>}

InputsAvailableNoCheck(pass, outs) == TRUE
InputsAvailableWithOwn(pass, outs) ==
  \A i \in 1..Len(pass.inputs) :
    \/ Contains(outs, pass.inputs[i])
    \/ \E j \in 1..Len(pass.outputs) : pass.outputs[j] = pass.inputs[i]
\* The first loop of add: every input is a registered output.
InputsAvailable(pass, outs) ==
  \A i \in 1..Len(pass.inputs) : Contains(outs, pass.inputs[i])

RECURSIVE RegisterOutputsNoCheck(_, _, _, _)
RegisterOutputsNoCheck(list, i, outs, pass_id) ==
  IF i > Len(list) THEN [outs |-> outs, bug |-> FALSE]
  ELSE RegisterOutputsNoCheck(list, i + 1, Emplace(outs, list[i], pass_id), pass_id)

\* The second loop of add: LOG(BUG) aborts at the first output that is already
\* registered; the outputs before it in the list have been emplaced by then.
RECURSIVE RegisterOutputs(_, _, _, _)
RegisterOutputs(list, i, outs, pass_id) ==
  IF i > Len(list) THEN [outs |-> outs, bug |-> FALSE]
  ELSE IF Contains(outs, list[i]) THEN [outs |-> outs, bug |-> TRUE]
  ELSE RegisterOutputs(list, i + 1, Emplace(outs, list[i], pass_id), pass_id)

\* No foreach has returned yet.
NoResult == [ok |-> FALSE, errs |-> <<>>, warns |-> <<>>]

Add(pass) ==
  /\ pc = "idle"
  /\ ~aborted
  /\ Len(passes_) < MaxPasses
  /\ IF ~InputsAvailable(pass, outputs_)
     THEN /\ aborted' = TRUE
          /\ UNCHANGED <<passes_, outputs_>>
     ELSE LET pass_id == Len(passes_)
              reg == RegisterOutputs(pass.outputs, 1, outputs_, pass_id)
          IN /\ outputs_' = reg.outs
             /\ aborted' = reg.bug
             /\ passes_' = IF reg.bug THEN passes_ ELSE Append(passes_, pass)
  \* foreach is not running: its locals and its last result are dead.
  /\ idx' = 0
  /\ warnings' = <<>>
  /\ invoked' = <<>>
  /\ fnres' = <<>>
  /\ ret' = NoResult
  /\ lastAdd' = [called |-> TRUE, pass |-> pass, passes |-> passes_,
                 outputs |-> outputs_]
  /\ UNCHANGED pc
  /\ UNCHANGED pmOthers

-----------------------------------------------------------------------------
(* PassManager::foreach.  fn is the caller's callback; each call of it is  *)
(* one step of the loop, and what it returns is an input.                  *)

\* A diagnostic emitted by pass p: its n-th error ("e") or warning ("w").
Diag(p, k, n) == [p |-> p, k |-> k, n |-> n]

DiagList(p, k, n) == [i \in 1..n |-> Diag(p, k, i)]

\* What fn may return for pass p.
FnResults(p) ==
  {Success(DiagList(p, "w", nw)) : nw \in 0..MaxWarn}
  \cup {Failure(DiagList(p, "e", ne), DiagList(p, "w", nw)) :
          ne \in 1..MaxErr, nw \in 0..MaxWarn}

StopsOnNothing(err) == FALSE
\* `if (!err.ok())`: foreach returns at the first failed result.
StopsOn(err) == ~err.ok

ForeachBegin ==
  /\ pc = "idle"
  /\ ~aborted
  /\ pc' = "foreach"
  /\ idx' = 0
  /\ warnings' = <<>>
  /\ invoked' = <<>>
  /\ fnres' = <<>>
  /\ ret' = NoResult
  /\ UNCHANGED <<passes_, outputs_, aborted, lastAdd>>
  /\ UNCHANGED pmOthers

ForeachCall ==
  /\ pc = "foreach"
  /\ idx < Len(passes_)
  /\ \E err \in FnResults(idx) :
       /\ invoked' = Append(invoked, idx)
       /\ fnres' = Append(fnres, err)
       /\ IF StopsOn(err)
          THEN /\ ret' = ConvertFailedWithWarnings(err, warnings)
               /\ pc' = "idle"
               /\ UNCHANGED <<idx, warnings>>
          ELSE /\ warnings' = Unwrap(err, warnings)
               /\ idx' = idx + 1
               /\ UNCHANGED <<pc, ret>>
  /\ UNCHANGED <<passes_, outputs_, aborted, lastAdd>>
  /\ UNCHANGED pmOthers

ForeachReturn ==
  /\ pc = "foreach"
  /\ idx = Len(passes_)
  /\ ret' = Success(warnings)
  /\ pc' = "idle"
  /\ UNCHANGED <<passes_, outputs_, aborted, idx, warnings, invoked, fnres,
                 lastAdd>>
  /\ UNCHANGED pmOthers

-----------------------------------------------------------------------------
(* SizedType, as far as the type rules of ast.cpp look at it.  A type is   *)
(* named by a string; the predicates below are its interface (types.h).    *)

ArrayTypes == {"arr_int64_2", "arr_int64_3", "arr_int8_2", "arr_ptr_2"}

IsIntegerTy(t) == t \in {"int64", "int8", "int1"}
IsPtrTy(t) == t = "ptr_int64"
GetPointeeTy(t) == "int64"
IsArrayTy(t) == t \in ArrayTypes
GetElementTy(t) ==
  IF t \in {"arr_int64_2", "arr_int64_3"} THEN "int64"
  ELSE IF t = "arr_int8_2" THEN "int8" ELSE "ptr_int64"
GetNumElements(t) == IF t = "arr_int64_3" THEN 3 ELSE 2
IsRecordTy(t) == t = "rec"
\* The record type "rec" has one field, f, of type int64.
HasField(t, f) == t = "rec" /\ f = "f"
IsMultiOutputMapTy(t) == t = "hist"
\* CreateInt(1)
CreateInt1 == "int1"
\* Struct::CreateTuple(...)
CreateTuple == "tuple"

-----------------------------------------------------------------------------
(* Expression nodes.  The parser builds them bottom-up: a new node takes    *)
(* its children from the top of the stack of nodes that have no parent yet. *)
(* Ternary's cond and ArrayAccess's indexpr are not read by type() and are *)
(* left out.                                                               *)

NodeIds == 1..MaxNodes

\* The types of the literal nodes built here.
LeafTypes == {"ptr_int64"}
UnopOps == {"LNOT", "MUL"}
BinopOps == {"EQ"}
Fields == {"f"}

Node(kind, op, kids, field, ty) ==
  [kind |-> kind, op |-> op, kids |-> kids, field |-> field, ty |-> ty]

\* ASTContext::make_node followed by the parser's reduction.  The tree is
\* parsed before any type is set or read.
MakeNode(node, arity) ==
  /\ last.op = "none"
  /\ Len(nodes_) < MaxNodes
  /\ Len(stack) >= arity
  /\ LET id == Len(nodes_) + 1
         base == Len(stack) - arity
     IN /\ nodes_' = Append(nodes_, [node EXCEPT !.kids = SubSeq(stack, base + 1, Len(stack))])
        /\ stack' = Append(SubSeq(stack, 1, base), id)
  /\ UNCHANGED <<type_, thunks, crashed, last>>
  /\ UNCHANGED ftOthers

\* FixedTypeExpression (Integer, String, Cast, Sizeof, ...)
MakeFixed(ty) == MakeNode(Node("Fixed", "", <<>>, "", ty), 0)
\* VariableTypeExpression (Identifier, Builtin, Call, Map, Variable)
MakeVariable ==
  /\ Cardinality({n \in 1..Len(nodes_) : nodes_[n].kind = "Var"}) < MaxVars
  /\ MakeNode(Node("Var", "", <<>>, "", ""), 0)
MakeUnop(op) == MakeNode(Node("Unop", op, <<>>, "", ""), 1)
MakeBinop(op) == MakeNode(Node("Binop", op, <<>>, "", ""), 2)
MakeTernary == MakeNode(Node("Ternary", "", <<>>, "", ""), 2)
MakeFieldAccess(f) == MakeNode(Node("FieldAccess", "", <<>>, f, ""), 1)
MakeArrayAccess == MakeNode(Node("ArrayAccess", "", <<>>, "", ""), 1)
MakeTuple(k) == MakeNode(Node("Tuple", "", <<>>, "", ""), k)

-----------------------------------------------------------------------------
(* Expression::FutureType.  result_ is an optional<variant<string,         *)
(* SizedType>>: tag "none" (empty), "error" (a string) or "type".          *)

NoneRes == [tag |-> "none", val |-> ""]
TypeRes(t) == [tag |-> "type", val |-> t]
ErrorRes(m) == [tag |-> "error", val |-> m]

(* The type rules of ast.cpp, on operand types that resolved.  The result  *)
(* is a type, an error, or NoneRes where the lambda returns nothing.       *)

\* Binop::type's lambda: only the array checks are there; every other path
\* reaches the end of the lambda without a return.
BinopType(op, lht, rht) ==
  IF IsArrayTy(lht) /\ IsArrayTy(rht)
  THEN IF op # "EQ" /\ op # "NE"
       THEN ErrorRes("operator cannot be used on arrays")
       ELSE IF ~IsIntegerTy(GetElementTy(lht)) \/ lht # rht
       THEN ErrorRes("Only arrays of same sized integer support comparison operators.")
       ELSE IF GetNumElements(lht) # GetNumElements(rht)
       THEN ErrorRes("Only arrays of same size support comparison operators.")
       ELSE NoneRes
  ELSE NoneRes

\* Ternary::type's lambda.
TernaryType(lt, rt) ==
  IF lt # rt THEN ErrorRes("ternary type mismatch") ELSE TypeRes(lt)

\* FieldAccess::type's lambda: the error is returned when the field IS
\* there (`if (t.HasField(field))`); otherwise GetField fetches a field the
\* type does not have.
FieldAccessType(t, field) ==
  IF ~IsRecordTy(t) THEN ErrorRes("field access on non-record type")
  ELSE IF HasField(t, field) THEN ErrorRes("field not found")
  ELSE NoneRes

\* ArrayAccess::type's lambda.
ArrayAccessType(t) ==
  IF IsArrayTy(t) THEN TypeRes(GetElementTy(t))
  ELSE IF IsPtrTy(t) THEN TypeRes(GetPointeeTy(t))
  ELSE ErrorRes("type not legal for array access")

\* A FutureType as constructed: running_ = false, result_ empty.
FreshThunk == [running |-> FALSE, res |-> NoneRes]

\* The FutureType objects that outlive an access are those held in a type_:
\* <<v, n>> is the FutureType made from node n's type() inside the FutureType
\* that set_type stored in variable node v.
FreshThunks == [k \in NodeIds \X NodeIds |-> FreshThunk]

\* The expressions handed to the analysis are whole ones: the nodes that
\* the parser left without a parent.
IsRoot(x) == \E i \in 1..Len(stack) : stack[i] = x

NoAccess ==
  [op |-> "none", node |-> 0, ret |-> "", reent |-> {}, ran |-> {}, hits |-> {},
   reads |-> {}, overflow |-> FALSE]

\* VariableTypeExpression::set_type(x->type()): the stored FutureType and the
\* FutureTypes its lambdas captured are new objects.
SetType(v, x) ==
  /\ ~crashed
  /\ v <= Len(nodes_)
  /\ IsRoot(x)
  /\ nodes_[v].kind = "Var"
  /\ type_' = [type_ EXCEPT ![v] = x]
  /\ thunks' = [k \in NodeIds \X NodeIds |-> IF k[1] = v THEN FreshThunk ELSE thunks[k]]
  /\ last' = [NoAccess EXCEPT !.op = "set_type"]
  /\ UNCHANGED <<nodes_, stack, crashed>>
  /\ UNCHANGED ftOthers

\* What the build may make of undefined behaviour: the process dies, or
\* the read yields some SizedType, or some string.
UBOutcomes == {"crash", "type", "error"}
GarbageType == "int64"

\* FutureType::type(): std::get<SizedType>(*result_).  On a string it throws
\* std::bad_variant_access, which nothing catches; on an empty optional the
\* behaviour is undefined.
ReadType(res, ub) ==
  IF res.tag = "type" THEN [crash |-> FALSE, ty |-> res.val]
  ELSE IF res.tag = "error" THEN [crash |-> TRUE, ty |-> ""]
  ELSE IF ub = "crash" THEN [crash |-> TRUE, ty |-> ""]
  ELSE [crash |-> FALSE, ty |-> GarbageType]

\* Control flows off the end of a lambda returning Rval (or a field that is
\* not there is fetched): undefined behaviour.
FlowsOffEnd(st) ==
  IF st.ub = "crash" THEN [st |-> [st EXCEPT !.crashed = TRUE], res |-> NoneRes]
  ELSE IF st.ub = "type" THEN [st |-> st, res |-> TypeRes(GarbageType)]
  ELSE [st |-> st, res |-> ErrorRes("garbage")]

\* `return "recursive type inferrence; cannot be resolved";` in a function
\* returning bool: the string literal converts to true.
RunningAnswer == TRUE

IsRunningNever(t) == FALSE
\* `if (running_ == true)`
IsRunning(t) == t.running

NeedsEvalAlways(res) == TRUE
\* `if (!result_ || std::holds_alternative<std::string>(*result_))`
NeedsEval(res) == res.tag = "none" \/ res.tag = "error"

PropagateGarbage(child) == TypeRes(GarbageType)
\* `if (!exprType.valid()) return exprType.error();`
Propagate(child) == ErrorRes(child.val)

Stop(st) == st.crashed \/ st.overflow
Dead(st) == [st |-> st, ret |-> FALSE, res |-> NoneRes]
Crash(st) == [st |-> [st EXCEPT !.crashed = TRUE], res |-> NoneRes]
Out(st, res) == [st |-> st, res |-> res]

\* A lambda found its child's valid() false and returns the child's error.
Failed(r, n, kind, c) ==
  LET out == Propagate(c.res)
  IN [st |-> [c.st EXCEPT !.reads = @ \cup {[root |-> r, node |-> n, kind |-> kind,
                                             err |-> c.res, out |-> out]}],
      res |-> out]

RECURSIVE Valid(_, _, _, _)
RECURSIVE Fn(_, _, _, _)
RECURSIVE TupleLoop(_, _, _, _, _)

\* FutureType::valid() of the FutureType made from node n's type(): a
\* temporary when r = 0, else the one held (directly or captured) in
\* variable node r's type_.  d is the depth of the call.
Valid(st, r, n, d) ==
  IF Stop(st) THEN Dead(st)
  ELSE IF d > MaxDepth THEN Dead([st EXCEPT !.overflow = TRUE])
  ELSE
    LET s0 == st
    IN IF r = 0
       THEN LET f == Fn(s0, r, n, d)
            IN [st |-> f.st, ret |-> f.res.tag = "type", res |-> f.res]
       ELSE LET t == s0.th[<<r, n>>]
            IN IF IsRunning(t)
               THEN [st |-> [s0 EXCEPT !.reent = @ \cup {[root |-> r, node |-> n,
                                                          ret |-> RunningAnswer]}],
                     ret |-> RunningAnswer, res |-> t.res]
               ELSE IF NeedsEval(t.res)
               THEN LET s1 == [s0 EXCEPT !.th[<<r, n>>].running = TRUE,
                                         !.ran = @ \cup {[key |-> <<r, n>>,
                                                          before |-> t.res.tag]}]
                        f == Fn(s1, r, n, d)
                    IN IF Stop(f.st) THEN Dead(f.st)
                       ELSE [st |-> [f.st EXCEPT !.th[<<r, n>>] =
                                       [running |-> FALSE, res |-> f.res]],
                             ret |-> f.res.tag = "type", res |-> f.res]
               ELSE [st |-> [s0 EXCEPT !.hits = @ \cup {[key |-> <<r, n>>,
                                                             res |-> t.res]}],
                     ret |-> TRUE, res |-> t.res]

\* Tuple::type's loop over elems, from element i on: each element's type()
\* is a new temporary FutureType.
TupleLoop(st, r, n, i, d) ==
  IF i > Len(nodes_[n].kids) THEN Out(st, TypeRes(CreateTuple))
  ELSE LET c == Valid(st, 0, nodes_[n].kids[i], d + 1)
       IN IF Stop(c.st) THEN Out(c.st, NoneRes)
          ELSE IF ~c.ret THEN Failed(r, n, "Tuple", c)
          ELSE LET t == ReadType(c.res, c.st.ub)
               IN IF t.crash THEN Crash(c.st)
                  ELSE IF IsMultiOutputMapTy(t.ty)
                  THEN Out(c.st, ErrorRes("map type cannot exist inside a tuple"))
                  ELSE TupleLoop(c.st, r, n, i + 1, d)

\* fn_(): the lambda that node n's type() returned.
Fn(st, r, n, d) ==
  LET node == nodes_[n] IN
  CASE node.kind = "Fixed" -> Out(st, TypeRes(node.ty))
    [] node.kind = "Var" ->
         IF type_[n] = 0 THEN Out(st, ErrorRes("unknown type"))
         ELSE LET c == Valid(st, n, type_[n], d + 1)
              IN IF Stop(c.st) THEN Out(c.st, NoneRes)
                 ELSE IF ~c.ret THEN Out(c.st, ErrorRes(c.res.val))
                 ELSE LET t == ReadType(c.res, c.st.ub)
                      IN IF t.crash THEN Crash(c.st) ELSE Out(c.st, TypeRes(t.ty))
    [] node.kind = "Unop" ->
         LET c == Valid(st, r, node.kids[1], d + 1)
         IN IF Stop(c.st) THEN Out(c.st, NoneRes)
            ELSE IF ~c.ret THEN Failed(r, n, "Unop", c)
            ELSE IF node.op = "LNOT" THEN Out(c.st, TypeRes(CreateInt1))
            ELSE LET t == ReadType(c.res, c.st.ub)
                 IN IF t.crash THEN Crash(c.st)
                    ELSE IF node.op = "MUL"
                    THEN IF ~IsPtrTy(t.ty)
                         THEN Out(c.st, ErrorRes("invalid dereference"))
                         ELSE Out(c.st, TypeRes(GetPointeeTy(t.ty)))
                    ELSE Out(c.st, TypeRes(t.ty))
    [] node.kind \in {"Binop", "Ternary"} ->
         LET cl == Valid(st, r, node.kids[1], d + 1)
         IN IF Stop(cl.st) THEN Out(cl.st, NoneRes)
            ELSE IF ~cl.ret THEN Failed(r, n, node.kind, cl)
            ELSE LET cr == Valid(cl.st, r, node.kids[2], d + 1)
                 IN IF Stop(cr.st) THEN Out(cr.st, NoneRes)
                    ELSE IF ~cr.ret THEN Failed(r, n, node.kind, cr)
                    ELSE LET lt == ReadType(cl.res, cr.st.ub)
                             rt == ReadType(cr.res, cr.st.ub)
                         IN IF lt.crash \/ rt.crash THEN Crash(cr.st)
                            ELSE IF node.kind = "Ternary"
                            THEN Out(cr.st, TernaryType(lt.ty, rt.ty))
                            ELSE LET b == BinopType(node.op, lt.ty, rt.ty)
                                 IN IF b.tag = "none" THEN FlowsOffEnd(cr.st)
                                    ELSE Out(cr.st, b)
    [] node.kind = "FieldAccess" ->
         LET c == Valid(st, r, node.kids[1], d + 1)
         IN IF Stop(c.st) THEN Out(c.st, NoneRes)
            ELSE IF ~c.ret THEN Failed(r, n, "FieldAccess", c)
            ELSE LET t == ReadType(c.res, c.st.ub)
                 IN IF t.crash THEN Crash(c.st)
                    ELSE LET fa == FieldAccessType(t.ty, node.field)
                         IN IF fa.tag = "none" THEN FlowsOffEnd(c.st)
                            ELSE Out(c.st, fa)
    [] node.kind = "ArrayAccess" ->
         LET c == Valid(st, r, node.kids[1], d + 1)
         IN IF Stop(c.st) THEN Out(c.st, NoneRes)
            ELSE IF ~c.ret THEN Failed(r, n, "ArrayAccess", c)
            ELSE LET t == ReadType(c.res, c.st.ub)
                 IN IF t.crash THEN Crash(c.st)
                    ELSE Out(c.st, ArrayAccessType(t.ty))
    [] OTHER -> TupleLoop(st, r, n, 1, d)

\* e->type() is called, then valid() on the FutureType it returned (and
\* error() or type() by what valid() said); the temporary is then destroyed.
Access(e, ub) ==
  /\ ~crashed
  /\ IsRoot(e)
  /\ LET st0 == [th |-> thunks, ub |-> ub, crashed |-> FALSE, overflow |-> FALSE,
                 reent |-> {}, ran |-> {}, hits |-> {}, reads |-> {}]
         c == Valid(st0, 0, e, 1)
     IN /\ thunks' = c.st.th
        /\ crashed' = Stop(c.st)
        /\ last' = [op |-> "access", node |-> e,
                    ret |-> IF Stop(c.st) THEN "crash"
                            ELSE IF c.ret THEN "valid" ELSE "invalid",
                    reent |-> c.st.reent, ran |-> c.st.ran, hits |-> c.st.hits,
                    reads |-> c.st.reads, overflow |-> c.st.overflow]
  /\ UNCHANGED <<nodes_, stack, type_>>
  /\ UNCHANGED ftOthers

-----------------------------------------------------------------------------
(* Visitor<Impl, R> with R = ErrorOr (visitor.h).  The tree is built       *)
(* bottom-up as the parser does.  The Impl is a pass that overrides visit  *)
(* for the leaves (its visit returns the leaf's diagnostics) and may       *)
(* override replace; every other node gets the Visitor's own visit.        *)

\* The Impl's replace: the Visitor's default, or one that puts a new literal
\* in the place of a leaf whose visit succeeded.
Hooks == {"default", "fold"}

\* The order in which the build evaluates the arguments of a call such as
\* merge(visitAndReplace(&a), visitAndReplace(&b)): the language leaves it
\* unspecified; compilers go left to right or right to left.
ArgOrders == {"ltr", "rtl"}

VNode(kind, kids, fails) == [kind |-> kind, kids |-> kids, fails |-> fails]

\* ASTContext::make_node followed by the parser's reduction.
MakeVNode(node, arity) ==
  /\ ~trav.done
  /\ Len(vnodes) < MaxTreeNodes
  /\ Len(vstack) >= arity
  /\ LET base == Len(vstack) - arity
     IN /\ vnodes' = Append(vnodes, [node EXCEPT !.kids = SubSeq(vstack, base + 1, Len(vstack))])
        /\ vstack' = Append(SubSeq(vstack, 1, base), Len(vnodes) + 1)
  /\ UNCHANGED <<argOrder, trav>>
  /\ UNCHANGED viOthers

\* A node without children (Integer, Builtin, Variable, ...); the Impl's
\* visit of it fails or not.
MakeLeaf(fails) == MakeVNode(VNode("Leaf", <<>>, fails), 0)
\* Binop: left, right
MakeVBinop == MakeVNode(VNode("Binop", <<>>, FALSE), 2)
\* Ternary: cond, left, right (If: cond, if_block, else_block)
MakeVTernary == MakeVNode(VNode("Ternary", <<>>, FALSE), 3)
\* Tuple: elems (Call: vargs; Block: stmts), a std::vector of children
MakeVTuple(k) == MakeVNode(VNode("Tuple", <<>>, FALSE), k)

VDiag(sev, n) == <<sev, n>>

\* What the Impl's visit returns for node n, a leaf.
LeafResult(node, n) ==
  IF node.kind = "Lit" THEN Success(<<>>)
  ELSE IF node.fails THEN Failure(<<VDiag("error", n)>>, <<VDiag("warning", n)>>)
  ELSE Success(<<VDiag("warning", n)>>)

\* default_value(): R(), a value without diagnostics.
DefaultValue == Success(<<>>)

Event(ev, par, slot, node, to) ==
  [ev |-> ev, par |-> par, slot |-> slot, node |-> node, to |-> to]

Logged(st, e) == [st EXCEPT !.log = Append(@, e)]

\* (a replace that builds the new node in the place of the one it replaces)
ReplaceDestroying(hook, nodes, orig, rval) ==
  IF hook = "fold" /\ nodes[orig].kind = "Leaf" /\ rval.ok
  THEN [nodes |-> [nodes EXCEPT ![orig] = VNode("Lit", <<>>, FALSE)], node |-> orig]
  ELSE [nodes |-> nodes, node |-> orig]

\* impl->replace(orig, &rval): the node to put in the slot, and the nodes
\* after a make_node if it made one.
Replace(hook, nodes, orig, rval) ==
  IF hook = "fold" /\ nodes[orig].kind = "Leaf" /\ rval.ok
  THEN [nodes |-> Append(nodes, VNode("Lit", <<>>, FALSE)), node |-> Len(nodes) + 1]
  ELSE [nodes |-> nodes, node |-> orig]

StoreOriginal(nodes, par, slot, orig, new) == nodes

StoreAtFront(nodes, par, slot, orig, new) ==
  LET kids == nodes[par].kids
  IN [nodes EXCEPT ![par].kids =
        <<new>> \o SubSeq(kids, 1, slot - 1) \o SubSeq(kids, slot + 1, Len(kids))]

\* `*t = impl->replace(orig, &rval);`
Store(nodes, par, slot, orig, new) == [nodes EXCEPT ![par].kids[slot] = new]

\* merge(first): the one-argument overload returns first.
\* merge(first, second, args...): merge(merge(first, second), args...).
RECURSIVE MergeAll(_)
MergeAll(rs) ==
  IF Len(rs) = 1 THEN rs[1]
  ELSE MergeAll(<<Merge(rs[1], rs[2])>> \o SubSeq(rs, 3, Len(rs)))

\* The positions 1..k in the order the build evaluates k arguments.
EvalOrder(order, k) == [j \in 1..k |-> IF order = "ltr" THEN j ELSE k + 1 - j]

\* visit(std::vector<T *> &): what the loop makes of an element's result
\* (nothing: the call's value is not used).
ListResult(acc, rval) == acc

RECURSIVE VisitNode(_, _)
RECURSIVE VisitAndReplace(_, _, _)
RECURSIVE VisitArgs(_, _, _, _, _)
RECURSIVE VisitList(_, _, _, _)

\* visitAndReplace(&slot) for child slot `slot` of node par.
VisitAndReplace(st, par, slot) ==
  LET orig == st.nodes[par].kids[slot]
      s1 == Logged(st, Event("read", par, slot, orig, 0))
      c == VisitNode(s1, orig)
      r == Replace(st.hook, c.st.nodes, orig, c.res)
      s2 == Logged([c.st EXCEPT !.nodes = r.nodes],
                   Event("replace", par, slot, orig, r.node))
      stored == Store(s2.nodes, par, slot, orig, r.node)
      s3 == Logged([s2 EXCEPT !.nodes = stored],
                   Event("store", par, slot, orig, stored[par].kids[slot]))
  IN [st |-> s3, res |-> c.res]

\* The arguments of merge(...), evaluated in the build's order; rs collects
\* their values by position.
VisitArgs(st, par, ord, j, rs) ==
  IF j > Len(ord) THEN [st |-> st, rs |-> rs]
  ELSE LET c == VisitAndReplace(st, par, ord[j])
       IN VisitArgs(c.st, par, ord, j + 1, [rs EXCEPT ![ord[j]] = c.res])

\* visit(std::vector<T *> &var): for (auto &value : var) visitAndReplace(&value);
\* then return default_value().
VisitList(st, par, i, acc) ==
  IF i > Len(st.nodes[par].kids) THEN [st |-> st, res |-> acc]
  ELSE LET c == VisitAndReplace(st, par, i)
       IN VisitList(c.st, par, i + 1, ListResult(acc, c.res))

\* impl->visit(node n)
VisitNode(st, n) ==
  LET node == st.nodes[n]
      s1 == Logged(st, Event("visit", 0, 0, n, 0))
      out == IF node.kind \in {"Leaf", "Lit"}
             THEN [st |-> s1, res |-> LeafResult(node, n)]
             ELSE IF node.kind = "Tuple"
             THEN VisitList(s1, n, 1, DefaultValue)
             ELSE LET k == Len(node.kids)
                      a == VisitArgs(s1, n, EvalOrder(st.order, k), 1,
                                     [j \in 1..k |-> DefaultValue])
                  IN [st |-> a.st, res |-> MergeAll(a.rs)]
  IN [st |-> Logged(out.st, Event("ret", 0, 0, n, 0)), res |-> out.res]

\* No traversal has run yet.
NoTraversal ==
  [done |-> FALSE, hook |-> "default", root |-> 0, before |-> <<>>,
   log |-> <<>>, res |-> DefaultValue, prev |-> <<>>]

\* The child slots in the order a traversal read them.
RECURSIVE SlotsRead(_)
SlotsRead(log) ==
  IF log = <<>> THEN <<>>
  ELSE LET e == log[1]
           rest == SlotsRead(SubSeq(log, 2, Len(log)))
       IN IF e.ev = "read" THEN <<(<<e.par, e.slot>>)>> \o rest ELSE rest

\* A pass runs over the program: visitor.visit(root).
Traverse(hook, order) ==
  /\ vstack # <<>>
  /\ argOrder \in {"unknown", order}
  /\ argOrder' = order
  /\ LET root == vstack[Len(vstack)]
         c == VisitNode([nodes |-> vnodes, hook |-> hook, order |-> order,
                         log |-> <<>>], root)
     IN /\ vnodes' = c.st.nodes
        /\ trav' = [done |-> TRUE, hook |-> hook, root |-> root, before |-> vnodes,
                    log |-> c.st.log, res |-> c.res,
                    prev |-> IF trav.done THEN SlotsRead(trav.log) ELSE <<>>]
  /\ UNCHANGED vstack
  /\ UNCHANGED viOthers

-----------------------------------------------------------------------------
(* ReturnPathAnalyser (passes/return_path_analyser.cpp), a Visitor with    *)
(* R = bool.  The statements are built bottom-up; a Subprog takes the      *)
(* statements parsed since the previous one as its body.  A node's source  *)
(* location is its index in rnodes.                                        *)

JumpTypes == {"RETURN", "BREAK"}

\* stmts: Block::stmts, Subprog::stmts, or the stmts of If::if_block;
\* elses: the stmts of If::else_block, which is a null pointer when hasElse
\* is false.
RNode(kind, ident, void, stmts, elses, hasElse) ==
  [kind |-> kind, ident |-> ident, void |-> void, stmts |-> stmts,
   elses |-> elses, hasElse |-> hasElse]

IsStatement(n) == rnodes[n].kind # "Subprog"

\* The statements on top of the parser's stack, down to the last Subprog.
RECURSIVE BodyLen(_)
BodyLen(stk) ==
  IF stk = <<>> \/ ~IsStatement(stk[Len(stk)]) THEN 0
  ELSE 1 + BodyLen(SubSeq(stk, 1, Len(stk) - 1))

\* ASTContext::make_node followed by the parser's reduction: the new node
\* takes its k1 + k2 children from the top of the stack.
MakeRNode(node, k1, k2) ==
  /\ ~analysis.done
  /\ Len(rnodes) < MaxStmtNodes
  /\ BodyLen(rstack) >= k1 + k2
  /\ LET base == Len(rstack) - (k1 + k2)
     IN /\ rnodes' = Append(rnodes,
                            [node EXCEPT !.stmts = SubSeq(rstack, base + 1, base + k1),
                                         !.elses = SubSeq(rstack, base + k1 + 1, Len(rstack))])
        /\ rstack' = Append(SubSeq(rstack, 1, base), Len(rnodes) + 1)
  /\ UNCHANGED analysis
  /\ UNCHANGED rpOthers

\* Jump(JumpType ident, ...)
MakeJump(ident) == MakeRNode(RNode("Jump", ident, FALSE, <<>>, <<>>, FALSE), 0, 0)
\* A block statement with k statements.
MakeBlock(k) == MakeRNode(RNode("Block", "", FALSE, <<>>, <<>>, FALSE), k, 0)
\* If(cond, if_block, else_block) with an else block
MakeIfElse(k1, k2) == MakeRNode(RNode("If", "", FALSE, <<>>, <<>>, TRUE), k1, k2)
\* If(cond, if_block, nullptr)
MakeIf(k1) == MakeRNode(RNode("If", "", FALSE, <<>>, <<>>, FALSE), k1, 0)
\* A function; its body is what was parsed since the previous function.
MakeSubprog(void) ==
  MakeRNode(RNode("Subprog", "", void, <<>>, <<>>, FALSE), BodyLen(rstack), 0)

\* What a build may make of `if_node.else_block->stmts` on a null
\* else_block: the process dies, or the loop finds no returning statement,
\* or it finds one.
NullOutcomes == {"crash", "false", "true"}

Ret(st, r) == [st |-> st, ret |-> r]

RECURSIVE VisitStmt(_, _)
RECURSIVE VisitEach(_, _, _, _)
RECURSIVE VisitUntilTrue(_, _, _)

\* A loop that visits every statement of the list and remembers whether
\* any visit returned true: `if (visit(stmt)) result = true;`, and
\* visit(std::vector<T *> &), which does not look at what the visits return.
VisitEach(st, stmts, i, acc) ==
  IF st.crashed \/ i > Len(stmts) THEN Ret(st, acc)
  ELSE LET c == VisitStmt(st, stmts[i])
       IN VisitEach(c.st, stmts, i + 1, acc \/ c.ret)

\* A loop that returns true at the first statement whose visit is true:
\* `if (visit(stmt)) return true;`
VisitUntilTrue(st, stmts, i) ==
  IF st.crashed \/ i > Len(stmts) THEN Ret(st, FALSE)
  ELSE LET c == VisitStmt(st, stmts[i])
       IN IF c.ret /\ ~c.st.crashed THEN c ELSE VisitUntilTrue(c.st, stmts, i + 1)

\* bool() : Visitor::default_value() for R = bool
DefaultBool == FALSE

\* visit of statement n
VisitStmt(st, n) ==
  LET node == rnodes[n] IN
  CASE node.kind = "Jump" -> Ret(st, node.ident = "RETURN")
    [] node.kind = "Block" ->
         \* Visitor::visit(Block &): merge(visitImpl(block.stmts))
         LET c == VisitEach(st, node.stmts, 1, FALSE)
         IN Ret(c.st, DefaultBool)
    [] OTHER ->
         \* ReturnPathAnalyser::visit(If &)
         LET a == VisitEach(st, node.stmts, 1, FALSE)
             out ==
               IF a.st.crashed THEN Ret(a.st, FALSE)
               ELSE IF ~a.ret THEN Ret(a.st, FALSE)
               ELSE IF ~node.hasElse
               THEN IF a.st.ub = "crash" THEN Ret([a.st EXCEPT !.crashed = TRUE], FALSE)
                    ELSE Ret(a.st, a.st.ub = "true")
               ELSE VisitUntilTrue(a.st, node.elses, 1)
         IN IF out.st.crashed THEN out
            ELSE Ret([out.st EXCEPT !.ifs = @ \cup {[node |-> n, ret |-> out.ret]}],
                     out.ret)

\* LOG(ERROR, subprog.loc, err_) << "Not all code paths returned a value"
NotAllPaths(loc) == [msg |-> "Not all code paths returned a value", loc |-> loc]

\* ReturnPathAnalyser::visit(Subprog &)
VisitSubprog(st, n) ==
  LET node == rnodes[n] IN
  IF node.void THEN Ret([st EXCEPT !.subs = @ \cup {[node |-> n, ret |-> TRUE]}], TRUE)
  ELSE LET c == VisitUntilTrue(st, node.stmts, 1)
       IN IF c.st.crashed THEN c
          ELSE IF c.ret
          THEN Ret([c.st EXCEPT !.subs = @ \cup {[node |-> n, ret |-> TRUE]}], TRUE)
          ELSE Ret([c.st EXCEPT !.subs = @ \cup {[node |-> n, ret |-> FALSE]},
                                !.err = Append(@, NotAllPaths(n))], FALSE)

\* ReturnPathAnalyser::visit(Program &): stops at the first function whose
\* visit is false.
RECURSIVE VisitProgram(_, _, _)
VisitProgram(st, functions, i) ==
  IF st.crashed \/ i > Len(functions) THEN Ret(st, TRUE)
  ELSE LET c == VisitSubprog(st, functions[i])
       IN IF c.st.crashed \/ ~c.ret THEN Ret(c.st, FALSE)
          ELSE VisitProgram(c.st, functions, i + 1)

\* The pass has not run.
NoAnalysis ==
  [done |-> FALSE, crashed |-> FALSE, ok |-> TRUE, errors |-> <<>>, ifs |-> {},
   subs |-> {}]

\* The function of CreateReturnPathPass: Failure(return_path.error()) when
\* the visit of the program is false, else Success().
ReturnPathPass(ub) ==
  /\ ~analysis.done
  /\ rstack # <<>>
  /\ \A i \in 1..Len(rstack) : ~IsStatement(rstack[i])
  /\ LET c == VisitProgram([crashed |-> FALSE, ub |-> ub, err |-> <<>>, ifs |-> {},
                            subs |-> {}], rstack, 1)
     IN analysis' = [done |-> TRUE, crashed |-> c.st.crashed,
                     ok |-> c.ret /\ ~c.st.crashed,
                     errors |-> IF c.ret \/ c.st.crashed THEN <<>> ELSE c.st.err,
                     ifs |-> c.st.ifs, subs |-> c.st.subs]
  /\ UNCHANGED <<rnodes, rstack>>
  /\ UNCHANGED rpOthers

-----------------------------------------------------------------------------
(* PortabilityAnalyser (passes/portability_analyser.cpp), a Visitor with   *)
(* R = void, and NodeCounter (passes/config_analyser.h).  The program is   *)
(* built bottom-up as the parser does.  A node's source location is its    *)
(* index in pnodes.                                                        *)

\* The identifiers, function names and probe types that the programs here
\* use (the probe type is what probetype(ap.provider) returns).
BuiltinIdents == {"curtask", "pid"}
CallFuncs == {"kaddr", "printf"}
ProbeTypes == {"usdt", "watchpoint", "kprobe"}

ExprKinds == {"PositionalParameter", "Builtin", "Call", "Cast"}
StmtKinds == {"ExprStatement", "For"}

\* tag:  Builtin::ident, Call::func, or the probe type of an AttachPoint;
\* kids: Call::vargs, Cast::expr, ExprStatement::expr, Probe::attach_points,
\*       Program::probes;
\* body: For::stmts, or the stmts of Probe::block.
\* For::decl is a Variable and For::expr a Map without a key: leaves that no
\* pass here looks at, not kept as nodes.
PNode(kind, tag, kids, body) ==
  [kind |-> kind, tag |-> tag, kids |-> kids, body |-> body]

\* The number of nodes on top of stk whose kind is in kinds.
RECURSIVE KindRun(_, _, _)
KindRun(nodes, stk, kinds) ==
  IF stk = <<>> \/ nodes[stk[Len(stk)]].kind \notin kinds THEN 0
  ELSE 1 + KindRun(nodes, SubSeq(stk, 1, Len(stk) - 1), kinds)

TopRun(stk, kinds) == KindRun(pnodes, stk, kinds)

\* The least number of nodes the parser still has to make before the
\* program is complete: a parent for the waiting expressions, the probe that
\* is open, the program.
ToComplete(nodes, stk) ==
  LET e == KindRun(nodes, stk, ExprKinds)
  IN IF Len(stk) = 1 /\ nodes[stk[1]].kind = "Program" THEN 0
     ELSE (IF e = 0 THEN 0 ELSE IF e = 1 THEN 1 ELSE 2)
            + (IF KindRun(nodes, stk, {"Probe"}) < Len(stk) THEN 1 ELSE 0)
            + 1

\* ASTContext::make_node followed by the parser's reduction: below the top
\* nb nodes of the stack (the new node's body) are its nk kids.
MakePNode(kind, tag, nk, nb) ==
  /\ ~port.done /\ ~counter.done
  /\ Len(pnodes) < MaxPortNodes
  /\ Len(pstack) >= nk + nb
  /\ LET n == Len(pstack)
         kids == SubSeq(pstack, n - nb - nk + 1, n - nb)
         body == SubSeq(pstack, n - nb + 1, n)
         nodes == Append(pnodes, PNode(kind, tag, kids, body))
         stk == Append(SubSeq(pstack, 1, n - nb - nk), Len(pnodes) + 1)
     IN /\ Len(nodes) + ToComplete(nodes, stk) <= MaxPortNodes
        /\ pnodes' = nodes
        /\ pstack' = stk
  /\ UNCHANGED <<port, counter>>
  /\ UNCHANGED poOthers

\* An attach point opens a probe: nothing of an earlier probe is unfinished.
MakeAttachPoint(ptype) ==
  /\ TopRun(pstack, {"Probe", "AttachPoint"}) = Len(pstack)
  /\ MakePNode("AttachPoint", ptype, 0, 0)

\* The probe's block is being parsed.
InBlock == TopRun(pstack, ExprKinds \union StmtKinds) < Len(pstack)
             /\ pnodes[pstack[Len(pstack) - TopRun(pstack, ExprKinds \union StmtKinds)]].kind
                  = "AttachPoint"

\* An operand may be parsed: the expressions waiting for their parent are
\* no more than a call takes.
CanPush == InBlock /\ TopRun(pstack, ExprKinds) < MaxElems

MakePositionalParameter == CanPush /\ MakePNode("PositionalParameter", "", 0, 0)
MakeBuiltin(ident) == CanPush /\ MakePNode("Builtin", ident, 0, 0)
\* Call with k arguments
MakeCall(func, k) ==
  /\ InBlock
  /\ TopRun(pstack, ExprKinds) >= k
  /\ MakePNode("Call", func, k, 0)
MakeCast ==
  /\ InBlock
  /\ TopRun(pstack, ExprKinds) >= 1
  /\ MakePNode("Cast", "", 1, 0)
MakeExprStatement ==
  /\ InBlock
  /\ TopRun(pstack, ExprKinds) >= 1
  /\ MakePNode("ExprStatement", "", 1, 0)
\* For(decl, expr, stmts) with k statements
MakeFor(k) ==
  /\ InBlock
  /\ TopRun(pstack, StmtKinds) >= k
  /\ MakePNode("For", "", 0, k)
\* Probe(attach_points, pred, block): the attach points and the statements
\* parsed since the previous probe; no predicate.
MakeProbe ==
  LET nb == TopRun(pstack, StmtKinds)
      nk == TopRun(SubSeq(pstack, 1, Len(pstack) - nb), {"AttachPoint"})
  IN /\ nk >= 1
     /\ MakePNode("Probe", "", nk, nb)
\* Program(c_definitions, config, functions, probes): the probes parsed; no
\* config and no functions.
MakeProgram ==
  /\ pstack # <<>>
  /\ TopRun(pstack, {"Probe"}) = Len(pstack)
  /\ MakePNode("Program", "", Len(pstack), 0)

\* ast.root is set: the parse is complete.
HasRoot == Len(pstack) = 1 /\ pnodes[pstack[1]].kind = "Program"

\* LOG(ERROR, loc, err_) << msg
PDiag(msg, loc) == [msg |-> msg, loc |-> loc]

\* (a replace that hands back the first node of the context instead)
PortReplaceFirst(node) == 1

\* Visitor::replace: PortabilityAnalyser defines no replace of its own.
PortReplace(node) == node

PSt(nodes, err) == [nodes |-> nodes, err |-> err]

RECURSIVE PortVisit(_, _, _)
RECURSIVE PortVisitList(_, _, _, _, _)
RECURSIVE PortVisitArgs(_, _, _, _)

\* visit(std::vector<T *> &) on the kids of node par: visitAndReplace on each
\* element, which stores what replace returns.
PortVisitList(st, par, field, i, order) ==
  LET list == st.nodes[par][field]
  IN IF i > Len(list) THEN st
     ELSE LET orig == list[i]
              st1 == PortVisit(st, orig, order)
              st2 == PSt([st1.nodes EXCEPT ![par][field][i] = PortReplace(orig)],
                         st1.err)
          IN PortVisitList(st2, par, field, i + 1, order)

\* `for (Expression *expr : call.vargs) visit(*expr);` and
\* `visit(*cast.expr)`: visit(T &) works on a copy of the pointer, nothing is
\* stored in the node.
PortVisitArgs(st, args, i, order) ==
  IF i > Len(args) THEN st
  ELSE PortVisitArgs(PortVisit(st, args[i], order), args, i + 1, order)

\* impl->visit(node n)
PortVisit(st, n, order) ==
  LET node == st.nodes[n]
      log(s, msg) == PSt(s.nodes, Append(s.err, PDiag(msg, n)))
  IN CASE node.kind = "PositionalParameter" ->
            log(st, "AOT does not yet support positional parameters")
       [] node.kind = "Builtin" ->
            IF node.tag = "curtask"
            THEN log(st, "AOT does not yet support accessing curtask")
            ELSE st
       [] node.kind = "Call" ->
            LET st1 == PortVisitArgs(st, node.kids, 1, order)
            IN IF node.tag \in {"kaddr", "uaddr", "cgroupid"}
               THEN log(st1, <<"AOT does not yet support ", node.tag, "()">>)
               ELSE st1
       [] node.kind = "Cast" ->
            log(PortVisitArgs(st, node.kids, 1, order),
                "AOT does not yet support struct casts")
       [] node.kind = "AttachPoint" ->
            IF node.tag = "usdt"
            THEN log(st, "AOT does not yet support USDT probes")
            ELSE IF node.tag \in {"watchpoint", "asyncwatchpoint"}
            THEN log(st, "AOT does not yet support watchpoint probes")
            ELSE st
       \* Visitor::visit(ExprStatement &)
       [] node.kind = "ExprStatement" -> PortVisitList(st, n, "kids", 1, order)
       \* Visitor::visit(For &): decl and expr, not stmts
       [] node.kind = "For" -> st
       \* Visitor::visit(Probe &): the attach points, the (null) predicate and
       \* the block are arguments of one call, visited in the build's order.
       [] node.kind = "Probe" ->
            IF order = "ltr"
            THEN PortVisitList(PortVisitList(st, n, "kids", 1, order), n, "body", 1, order)
            ELSE PortVisitList(PortVisitList(st, n, "body", 1, order), n, "kids", 1, order)
       \* Visitor::visit(Program &)
       [] node.kind = "Program" -> PortVisitList(st, n, "kids", 1, order)

\* The pass has not run.
NoPort == [done |-> FALSE, ok |-> TRUE, errors |-> <<>>, before |-> <<>>]

\* The function of CreatePortabilityPass.
PortabilityPass(order) ==
  /\ ~port.done
  /\ HasRoot
  /\ LET st == PortVisit(PSt(pnodes, <<>>), pstack[1], order)
     IN /\ pnodes' = st.nodes
        /\ port' = [done |-> TRUE,
                    ok |-> st.err = <<>>,
                    errors |-> st.err,
                    before |-> pnodes]
  /\ UNCHANGED <<pstack, counter>>
  /\ UNCHANGED poOthers

\* c.visitAll(*ctx.ast_ctx.root): preVisit runs once on every node of the
\* tree.  The Variable and the Map of a For are nodes too.
RECURSIVE CountNodes(_)
RECURSIVE CountList(_, _)
CountList(list, i) ==
  IF i > Len(list) THEN 0 ELSE CountNodes(list[i]) + CountList(list, i + 1)
CountNodes(n) ==
  1 + (IF pnodes[n].kind = "For" THEN 2 ELSE 0)
    + CountList(pnodes[n].kids, 1) + CountList(pnodes[n].body, 1)

\* `if (node_count >= max)`
OverLimit(node_count, max) == node_count >= max

\* LOG(ERROR) << "node count (" << node_count << ") exceeds the limit (" << max << ")"
CountDiag(node_count, max) ==
  [msg |-> "node count exceeds the limit", count |-> node_count, limit |-> max]

NoCount == [done |-> FALSE, ok |-> TRUE, count |-> 0, max |-> 0, log |-> <<>>]

\* The values of max_ast_nodes_ tried: around the size of a full program.
CounterLimits == (MaxPortNodes - 1)..(MaxPortNodes + 1)

\* The function of CreateCounterPass, with max_ast_nodes_ = max.
CounterPass(max) ==
  /\ ~counter.done
  /\ HasRoot
  /\ LET node_count == CountNodes(pstack[1])
     IN counter' = [done |-> TRUE,
                    ok |-> ~OverLimit(node_count, max),
                    count |-> node_count,
                    max |-> max,
                    log |-> IF OverLimit(node_count, max)
                            THEN <<CountDiag(node_count, max)>> ELSE <<>>]
  /\ UNCHANGED <<pnodes, pstack, port>>
  /\ UNCHANGED poOthers

-----------------------------------------------------------------------------
(* FoldConstants (passes/fold_constants.h; its visit methods, simplify and *)
(* reduce).  An expression is built bottom-up and handed to the pass as    *)
(* the expression of an ExprStatement.  A string is a sequence of          *)
(* characters.                                                             *)

IntLiterals == {2, 3}
StrLiterals == {<<"a">>}
\* The command line: the values of $1, $2, ...
Params == <<<<"7">>>>
ParamIndexes == {1, 2}
FoldOps == {"PLUS", "MUL", "EQ"}

\* n: Integer::n or PositionalParameter::n; str: String::str;
\* op: Binop::op; func: Call::func; kids: Binop::left and right, Call::vargs.
FNode(kind, n, str, op, kids) ==
  [kind |-> kind, n |-> n, str |-> str, op |-> op, kids |-> kids]

\* ASTContext::make_node followed by the parser's reduction.  The parser can
\* still join the waiting expressions into one with the nodes that are left.
MakeFNode(node, k) ==
  /\ ~folding.done
  /\ Len(fstack) >= k
  /\ Len(fnodes) + 1 + (Len(fstack) - k) <= MaxFoldNodes
  /\ LET n == Len(fstack)
     IN /\ fnodes' = Append(fnodes, [node EXCEPT !.kids = SubSeq(fstack, n - k + 1, n)])
        /\ fstack' = Append(SubSeq(fstack, 1, n - k), Len(fnodes) + 1)
  /\ UNCHANGED folding
  /\ UNCHANGED foOthers

MakeInteger(n) == MakeFNode(FNode("Integer", n, <<>>, "", <<>>), 0)
MakeString(str) == MakeFNode(FNode("String", 0, str, "", <<>>), 0)
MakePositional(n) == MakeFNode(FNode("PositionalParameter", n, <<>>, "", <<>>), 0)
\* str(arg)
MakeStrCall == MakeFNode(FNode("Call", 0, <<>>, "str", <<>>), 1)
MakeFoldBinop(op) == MakeFNode(FNode("Binop", 0, <<>>, op, <<>>), 2)

\* std::to_string(n) for n >= 0
Digit(d) == <<"0", "1", "2", "3", "4", "5", "6", "7", "8", "9">>[d + 1]
RECURSIVE to_string(_)
to_string(n) == IF n < 10 THEN <<Digit(n)>> ELSE Append(to_string(n \div 10), Digit(n % 10))

\* bpftrace_.get_param(n, true): the n-th parameter, or the empty string
GetParam(n) == IF n \in 1..Len(Params) THEN Params[n] ELSE <<>>

\* The state of the pass: the nodes, and simplified_ (0 is nullptr).
FSt(nodes, simplified) == [nodes |-> nodes, simplified |-> simplified]

\* reduce(ctx_.make_node<T>(...))
Reduce(st, node) == FSt(Append(st.nodes, node), Len(st.nodes) + 1)

RECURSIVE FoldVisit(_, _, _)
RECURSIVE Simplify(_, _, _, _)
RECURSIVE SimplifyAll(_, _, _, _)

\* simplify(&slot-th kid of par): visit the expression, then put what reduce
\* left in simplified_, if anything, in its place.
Simplify(st, par, slot, eqReduces) ==
  LET st1 == FoldVisit(st, st.nodes[par].kids[slot], eqReduces)
  IN IF st1.simplified # 0
     THEN FSt([st1.nodes EXCEPT ![par].kids[slot] = st1.simplified], 0)
     ELSE st1

\* `for (auto &expr : call.vargs) simplify(&expr);`
SimplifyAll(st, par, slot, eqReduces) ==
  IF slot > Len(st.nodes[par].kids) THEN st
  ELSE SimplifyAll(Simplify(st, par, slot, eqReduces), par, slot + 1, eqReduces)

\* (*expr)->accept(this).  eqReduces: whether the Integer that visit(Binop &)
\* makes for EQ and returns from a void function reaches simplified_.
FoldVisit(st, n, eqReduces) ==
  LET node == st.nodes[n]
  IN CASE node.kind = "Call" ->
            LET arg == st.nodes[node.kids[1]]
            IN IF node.op = "str" /\ Len(node.kids) = 1
                    /\ arg.kind = "PositionalParameter"
               THEN Reduce(st, FNode("String", 0, GetParam(arg.n), "", <<>>))
               ELSE IF node.op = "str" /\ Len(node.kids) = 1 /\ arg.kind = "Integer"
               THEN Reduce(st, FNode("String", 0, to_string(arg.n), "", <<>>))
               ELSE SimplifyAll(st, n, 1, eqReduces)
       [] node.kind = "Binop" ->
            LET st1 == Simplify(Simplify(st, n, 1, eqReduces), n, 2, eqReduces)
                left == st1.nodes[st1.nodes[n].kids[1]]
                right == st1.nodes[st1.nodes[n].kids[2]]
            IN IF left.kind = "Integer" /\ right.kind = "Integer" /\ node.op = "EQ"
               THEN LET made == FNode("Integer", IF left.n = right.n THEN 1 ELSE 0,
                                      <<>>, "", <<>>)
                    IN IF eqReduces THEN Reduce(st1, made)
                       ELSE FSt(Append(st1.nodes, made), 0)
               ELSE st1
       [] OTHER -> st

\* The pass has not run.
NoFolding == [done |-> FALSE, root |-> 0, before |-> <<>>]

\* FoldConstants::visit(ExprStatement &) on the statement that holds the
\* expression: simplify(&expr.expr).
FoldPass(eqReduces) ==
  /\ ~folding.done
  /\ Len(fstack) = 1
  /\ LET orig == fstack[1]
         st == FoldVisit(FSt(fnodes, 0), orig, eqReduces)
     IN /\ fnodes' = st.nodes
        /\ fstack' = <<IF st.simplified # 0 THEN st.simplified ELSE orig>>
        /\ folding' = [done |-> TRUE, root |-> orig, before |-> fnodes]
  /\ UNCHANGED foOthers

-----------------------------------------------------------------------------
(* ConfigAnalyser (passes/config_analyser.cpp).  A config block is a list  *)
(* of assignments `name = expression`; the pass visits them in order.      *)

\* One option of each kind that get_config_key knows, and a name it does
\* not know.
BoolKeys == {"lazy_symbolication"}
IntKeys == {"max_map_keys"}
StringKeys == {"str_trunc_trailer"}
ConfigNames == BoolKeys \union IntKeys \union StringKeys \union {"no_such_option"}

\* bpftrace_.config_.get_config_key(raw_ident, err_msg): the key's kind, or
\* "none" with an error message.
get_config_key(raw_ident) ==
  CASE raw_ident \in BoolKeys -> "ConfigKeyBool"
    [] raw_ident \in IntKeys -> "ConfigKeyInt"
    [] raw_ident \in StringKeys -> "ConfigKeyString"
    [] OTHER -> "none"

\* The right-hand sides: the alternative the expression holds, and its value.
Rhs(kind, n, str) == [kind |-> kind, n |-> n, str |-> str]
RhsValues ==
  {Rhs("Integer", n, "") : n \in 0..2}
    \union {Rhs("String", 0, "abc"), Rhs("PositionalParameter", 1, ""),
            Rhs("Binop", 0, "")}

\* exprType(assignment.expr) after the visit of the expression:
\* visit(Integer &) sets int64, visit(String &) a string type; the pass sets
\* no type on anything else.
exprType(expr) ==
  CASE expr.kind = "Integer" -> "integer"
    [] expr.kind = "String" -> "string"
    [] OTHER -> "none"

\* The configuration before any assignment.
DefaultConfig ==
  [name \in BoolKeys \union IntKeys \union StringKeys |->
     CASE name \in BoolKeys -> [b |-> FALSE]
       [] name \in IntKeys -> [n |-> 4096]
       [] name \in StringKeys -> [s |-> ".."]]

\* The state of the pass: the configuration, err_, and what was logged
\* without a stream (to stderr).
CSt(config, err, cerr) == [config |-> config, err |-> err, cerr |-> cerr]

\* LOG(ERROR, assignment.loc, err_) << ...
LogErr(st, msg, loc) == CSt(st.config, Append(st.err, [msg |-> msg, loc |-> loc]), st.cerr)
\* LOG(ERROR) << ...
LogCerr(st, msg, loc) == CSt(st.config, st.err, Append(st.cerr, [msg |-> msg, loc |-> loc]))

\* config_setter_.set(key, value)
Set(st, name, value) == CSt([st.config EXCEPT ![name] = value], st.err, st.cerr)

\* log_type_error
log_type_error(st, loc) == LogErr(st, "Invalid type", loc)

set_uint64_config(st, name, expr, loc) ==
  IF exprType(expr) # "integer" THEN log_type_error(st, loc)
  ELSE Set(st, name, [n |-> expr.n])

set_bool_config(st, name, expr, loc) ==
  IF exprType(expr) # "integer" THEN log_type_error(st, loc)
  ELSE IF expr.n = 0 THEN Set(st, name, [b |-> FALSE])
  ELSE IF expr.n = 1 THEN Set(st, name, [b |-> TRUE])
  ELSE LogCerr(st, "Invalid value. Needs to be 0 or 1", loc)

set_string_config(st, name, expr, loc) ==
  IF exprType(expr) # "string" THEN log_type_error(st, loc)
  ELSE Set(st, name, [s |-> expr.str])

\* ConfigAnalyser::visit(AssignConfigVarStatement &) on the statement at loc
VisitAssign(st, a, loc) ==
  LET key == get_config_key(a.config_var)
  IN IF key = "none" THEN LogErr(st, "Unrecognized config variable", loc)
     ELSE IF a.expr.kind \notin {"Integer", "String", "StackMode", "PositionalParameter"}
     THEN LogErr(st, "Assignment must be literal", loc)
     ELSE CASE key = "ConfigKeyBool" -> set_bool_config(st, a.config_var, a.expr, loc)
            [] key = "ConfigKeyInt" -> set_uint64_config(st, a.config_var, a.expr, loc)
            [] key = "ConfigKeyString" -> set_string_config(st, a.config_var, a.expr, loc)

\* visitAll(program_): the assignments in order; trace keeps the
\* configuration before each one.
RECURSIVE VisitAssigns(_, _, _, _)
VisitAssigns(st, stmts, i, trace) ==
  IF i > Len(stmts) THEN [st |-> st, trace |-> trace]
  ELSE VisitAssigns(VisitAssign(st, stmts[i], i), stmts, i + 1, Append(trace, st.config))

\* AssignConfigVarStatement(config_var, expr)
MakeAssignConfigVar(config_var, expr) ==
  /\ ~configured.done
  /\ Len(assignments) < MaxAssigns
  /\ assignments' = Append(assignments, [config_var |-> config_var, expr |-> expr])
  /\ UNCHANGED <<config_, configured>>
  /\ UNCHANGED cfOthers

\* The pass has not run.
NotConfigured == [done |-> FALSE, ok |-> TRUE, err |-> <<>>, cerr |-> <<>>, trace |-> <<>>]

\* The function of CreateConfigPass: ConfigAnalyser::analyse().
ConfigPass ==
  /\ ~configured.done
  /\ assignments # <<>>
  /\ LET r == VisitAssigns(CSt(config_, <<>>, <<>>), assignments, 1, <<>>)
     IN /\ config_' = r.st.config
        /\ configured' = [done |-> TRUE,
                          ok |-> r.st.err = <<>>,
                          err |-> r.st.err,
                          cerr |-> r.st.cerr,
                          trace |-> Append(r.trace, r.st.config)]
  /\ UNCHANGED assignments
  /\ UNCHANGED cfOthers

-----------------------------------------------------------------------------
(* The lambdas of FieldAccess::type and Binop::type (ast.cpp) applied to   *)
(* operand types that resolved.                                            *)

\* The operand types tried.
SizedTypes == {"int64", "int8", "ptr_int64", "rec", "hist"} \union ArrayTypes
\* The field names tried: "rec" has f and has no g.
FieldNames == {"f", "g"}
\* t.GetField("f").type
FieldTypeOfF == "int64"
Operators == {"EQ", "NE", "PLUS"}

NotResolved ==
  [rule |-> "none", op |-> "", lht |-> "", rht |-> "", field |-> "",
   res |-> NoneRes, crashed |-> FALSE]

\* What the caller gets where a lambda leaves its result to undefined
\* behaviour.
Undefined(ub) == FlowsOffEnd([ub |-> ub, crashed |-> FALSE])

\* The lambda of FieldAccess::type, on an operand of type t.
ResolveFieldAccess(t, field, ub) ==
  /\ LET fa == FieldAccessType(t, field)
         u == Undefined(ub)
     IN resolved' = [NotResolved EXCEPT
                       !.rule = "FieldAccess", !.lht = t, !.field = field,
                       !.res = IF fa.tag = "none" THEN u.res ELSE fa,
                       !.crashed = IF fa.tag = "none" THEN u.st.crashed ELSE FALSE]
  /\ UNCHANGED rlOthers

\* The lambda of Binop::type, on operands of types lht and rht.
ResolveBinop(op, lht, rht, ub) ==
  /\ LET b == BinopType(op, lht, rht)
         u == Undefined(ub)
     IN resolved' = [NotResolved EXCEPT
                       !.rule = "Binop", !.op = op, !.lht = lht, !.rht = rht,
                       !.res = IF b.tag = "none" THEN u.res ELSE b,
                       !.crashed = IF b.tag = "none" THEN u.st.crashed ELSE FALSE]
  /\ UNCHANGED rlOthers

-----------------------------------------------------------------------------
(* FunctionRegistry::add and FunctionRegistry::get *)

Origins == {"Builtin", "Script", "External"}
FqNames == {[ns |-> "", name |-> "f"], [ns |-> "", name |-> "g"]}
ParamLists == {<<>>, <<"int64">>, <<"none">>}
ArgLists == {<<>>, <<"int64">>, <<"string">>, <<"int64", "string">>}

Function(origin, name, params, varargs) ==
  [origin |-> origin, name |-> name, params |-> params, varargs |-> varargs]

\* SizedType::FitsInto on the types of ParamLists and ArgLists: the same
\* type, or an integer into an integer at least as wide.
FitsInto(from, to) ==
  \/ from = to
  \/ from = "int8" /\ to = "int64"

can_implicit_cast(from, to) ==
  \/ FitsInto(from, to)
  \/ from = "string" /\ to \in {"ptr_int8", "ptr_uint8"}
  \/ from = "string" /\ to = "string"

\* The functions funcs_by_fq_name_[fq_name] refers to.
Candidates(all, by, fq_name) == [k \in 1..Len(by[fq_name]) |-> all[by[fq_name][k]]]

RegistryAdd(origin, fq_name, params, varargs) ==
  /\ Len(all_funcs_) < MaxFuncs
  /\ IF \E k \in 1..Len(funcs_by_fq_name_[fq_name]) :
          all_funcs_[funcs_by_fq_name_[fq_name][k]].origin # "Builtin"
     THEN /\ added' = 0
          /\ UNCHANGED <<all_funcs_, funcs_by_fq_name_>>
     ELSE /\ all_funcs_' =
               Append(all_funcs_, Function(origin, fq_name.name, params, varargs))
          /\ funcs_by_fq_name_' =
               [funcs_by_fq_name_ EXCEPT ![fq_name] = Append(@, Len(all_funcs_) + 1)]
          /\ added' = Len(all_funcs_) + 1
  /\ UNCHANGED lastGet
  /\ UNCHANGED frOthers

\* The body of get's loop up to `if (valid)`: whether the candidate's
\* parameters can take the arguments.
ValidCandidate(candidate, arg_types) ==
  LET is_builtin == candidate.origin = "Builtin"
      params == candidate.params
      check_args ==
        IF Len(params) # Len(arg_types)
        THEN IF candidate.varargs /\ Len(arg_types) >= Len(params)
             THEN Len(params)
             ELSE 0
        ELSE Len(arg_types)
      sizes ==
        Len(params) = Len(arg_types)
          \/ (candidate.varargs /\ Len(arg_types) >= Len(params))
  IN /\ sizes
     /\ \A i \in 1..check_args :
          \/ is_builtin /\ params[i] = "none"
          \/ can_implicit_cast(arg_types[i], params[i])

SearchForward(refs) == refs
\* std::views::reverse(candidates)
SearchOrder(refs) == [k \in 1..Len(refs) |-> refs[Len(refs) + 1 - k]]

\* get's loop over search_order from position i: the function returned
\* (0 is nullptr) and whether the "Cannot call function" error was logged.
RECURSIVE Search(_, _, _, _)
Search(all, order, i, arg_types) ==
  IF i > Len(order) THEN [func |-> 0, logged |-> TRUE]
  ELSE IF ValidCandidate(all[order[i]], arg_types) THEN [func |-> order[i], logged |-> FALSE]
  ELSE IF all[order[i]].origin # "Builtin" THEN [func |-> 0, logged |-> FALSE]
  ELSE Search(all, order, i + 1, arg_types)

NoGet ==
  [called |-> FALSE, fq_name |-> [ns |-> "", name |-> "f"], arg_types |-> <<>>,
   size |-> 0, func |-> 0, logged |-> FALSE]

RegistryGet(fq_name, arg_types) ==
  LET found ==
        IF funcs_by_fq_name_[fq_name] = <<>>
        THEN [func |-> 0, logged |-> TRUE]
        ELSE Search(all_funcs_, SearchOrder(funcs_by_fq_name_[fq_name]), 1, arg_types)
  IN /\ lastGet' = [called |-> TRUE, fq_name |-> fq_name, arg_types |-> arg_types,
                    size |-> Len(all_funcs_), func |-> found.func,
                    logged |-> found.logged]
     /\ UNCHANGED <<all_funcs_, funcs_by_fq_name_, added>>
     /\ UNCHANGED frOthers

-----------------------------------------------------------------------------
(* Specifications *)

PMInit ==
  /\ passes_ = <<>>
  /\ outputs_ = {}
  /\ aborted = FALSE
  /\ pc = "idle"
  /\ idx = 0
  /\ warnings = <<>>
  /\ invoked = <<>>
  /\ fnres = <<>>
  /\ ret = NoResult
  /\ lastAdd = [called |-> FALSE, pass |-> [inputs |-> <<>>, outputs |-> <<>>],
                passes |-> <<>>, outputs |-> {}]

FTInit ==
  /\ nodes_ = <<>>
  /\ stack = <<>>
  /\ type_ = [n \in NodeIds |-> 0]
  /\ thunks = FreshThunks
  /\ crashed = FALSE
  /\ last = NoAccess

EOInit ==
  /\ operands = <<>>
  /\ merged = NotMerged
  /\ nested = NotNested

VIInit ==
  /\ vnodes = <<>>
  /\ vstack = <<>>
  /\ argOrder = "unknown"
  /\ trav = NoTraversal

RPInit ==
  /\ rnodes = <<>>
  /\ rstack = <<>>
  /\ analysis = NoAnalysis

POInit ==
  /\ pnodes = <<>>
  /\ pstack = <<>>
  /\ port = NoPort
  /\ counter = NoCount

FOInit ==
  /\ fnodes = <<>>
  /\ fstack = <<>>
  /\ folding = NoFolding

CFInit ==
  /\ assignments = <<>>
  /\ config_ = DefaultConfig
  /\ configured = NotConfigured

RLInit == resolved = NotResolved

FRInit ==
  /\ all_funcs_ = <<>>
  /\ funcs_by_fq_name_ = [fq \in FqNames |-> <<>>]
  /\ added = 0
  /\ lastGet = NoGet

Init == PMInit /\ FTInit /\ EOInit /\ VIInit /\ RPInit /\ POInit /\ FOInit /\ CFInit /\ RLInit /\ FRInit

\* The pass manager: passes are registered and run.
Next ==
  \/ \E pass \in Passes : Add(pass)
  \/ ForeachBegin
  \/ ForeachCall
  \/ ForeachReturn

Spec == Init /\ [][Next]_vars

\* Expressions are built, given types, and asked for their types.
NextType ==
  \/ \E ty \in LeafTypes : MakeFixed(ty)
  \/ MakeVariable
  \/ \E op \in UnopOps : MakeUnop(op)
  \/ \E op \in BinopOps : MakeBinop(op)
  \/ MakeTernary
  \/ \E f \in Fields : MakeFieldAccess(f)
  \/ MakeArrayAccess
  \/ \E k \in 1..MaxElems : MakeTuple(k)
  \/ \E v \in NodeIds, x \in NodeIds : SetType(v, x)
  \/ \E e \in NodeIds, ub \in UBOutcomes : Access(e, ub)

SpecType == Init /\ [][NextType]_vars

\* Visitor::merge(first, second, third): merge(merge(first, second), third).
\* The other nesting is what a node's visit builds when its second child
\* returns a result that was itself merged.
MergeThree ==
  /\ Len(operands) = 3
  /\ merged.done
  /\ ~nested.done
  /\ nested' = [done |-> TRUE,
                left |-> Merge(merged.res, operands[3]),
                right |-> Merge(operands[1], Merge(operands[2], operands[3]))]
  /\ UNCHANGED <<operands, merged>>
  /\ UNCHANGED eoOthers

\* Results are constructed and merged.
NextMerge ==
  \/ \E w \in SeqsUpTo(WarningDiags, MaxDiags) : MakeSuccess(w)
  \/ \E e \in SeqsUpTo(ErrorDiags, MaxDiags), w \in SeqsUpTo(WarningDiags, MaxDiags) :
       MakeFailure(e, w)
  \/ MergeOperands
  \/ MergeThree

SpecMerge == Init /\ [][NextMerge]_vars

\* A tree is built and passes traverse it.
NextVisit ==
  \/ \E fails \in BOOLEAN : MakeLeaf(fails)
  \/ MakeVBinop
  \/ MakeVTernary
  \/ \E k \in 1..MaxElems : MakeVTuple(k)
  \/ \E hook \in Hooks, order \in ArgOrders : Traverse(hook, order)

SpecVisit == Init /\ [][NextVisit]_vars

\* A program is parsed and the return-path pass runs over it.
NextReturn ==
  \/ \E ident \in JumpTypes : MakeJump(ident)
  \/ \E k \in 0..MaxElems : MakeBlock(k)
  \/ \E k1 \in 0..MaxElems, k2 \in 0..MaxElems : MakeIfElse(k1, k2)
  \/ \E k1 \in 0..MaxElems : MakeIf(k1)
  \/ \E void \in BOOLEAN : MakeSubprog(void)
  \/ \E ub \in NullOutcomes : ReturnPathPass(ub)

SpecReturn == Init /\ [][NextReturn]_vars

\* A program is parsed; the portability pass and the node-count pass run.
NextPort ==
  \/ \E ptype \in ProbeTypes : MakeAttachPoint(ptype)
  \/ MakePositionalParameter
  \/ \E ident \in BuiltinIdents : MakeBuiltin(ident)
  \/ \E func \in CallFuncs, k \in 0..MaxElems : MakeCall(func, k)
  \/ MakeCast
  \/ MakeExprStatement
  \/ \E k \in 0..MaxElems : MakeFor(k)
  \/ MakeProbe
  \/ MakeProgram
  \/ \E order \in ArgOrders : PortabilityPass(order)
  \/ \E max \in CounterLimits : CounterPass(max)

SpecPort == Init /\ [][NextPort]_vars

\* An expression is parsed and the constant-folding pass runs over it.
NextFold ==
  \/ \E n \in IntLiterals : MakeInteger(n)
  \/ \E str \in StrLiterals : MakeString(str)
  \/ \E n \in ParamIndexes : MakePositional(n)
  \/ MakeStrCall
  \/ \E op \in FoldOps : MakeFoldBinop(op)
  \/ \E eqReduces \in BOOLEAN : FoldPass(eqReduces)

SpecFold == Init /\ [][NextFold]_vars

\* A config block is parsed and the config pass runs over it.
NextConfig ==
  \/ \E config_var \in ConfigNames, expr \in RhsValues : MakeAssignConfigVar(config_var, expr)
  \/ ConfigPass

SpecConfig == Init /\ [][NextConfig]_vars

\* Type rules are applied to operand types.
NextRules ==
  \/ \E t \in SizedTypes, field \in FieldNames, ub \in UBOutcomes :
       ResolveFieldAccess(t, field, ub)
  \/ \E op \in Operators, lht \in SizedTypes, rht \in SizedTypes, ub \in UBOutcomes :
       ResolveBinop(op, lht, rht, ub)

SpecRules == Init /\ [][NextRules]_vars

\* Functions are added to the registry and looked up in it.
NextRegistry ==
  \/ \E origin \in Origins, fq_name \in FqNames, params \in ParamLists,
        varargs \in BOOLEAN :
       RegistryAdd(origin, fq_name, params, varargs)
  \/ \E fq_name \in FqNames, arg_types \in ArgLists :
       RegistryGet(fq_name, arg_types)

SpecRegistry == Init /\ [][NextRegistry]_vars

-----------------------------------------------------------------------------
(* Claims about PassManager, checked under Spec.                           *)

\* Some pass of the list `regd` declares t among its outputs.
ProducedBy(regd, t) ==
  \E k \in 1..Len(regd) :
    \E j \in 1..Len(regd[k].outputs) : regd[k].outputs[j] = t

\* The last add() was given a pass with an input that no pass registered
\* before it produces.
MissingInputCase ==
  /\ lastAdd.called
  /\ \E i \in 1..Len(lastAdd.pass.inputs) :
       ~ProducedBy(lastAdd.passes, lastAdd.pass.inputs[i])

\* C1: an add() of a pass that declares an input which no earlier-registered
\* pass produces aborts the process; the pass is not appended to passes_ and
\* outputs_ is left as it was on entry.
C1_MissingInputAborts ==
  MissingInputCase =>
    (aborted /\ passes_ = lastAdd.passes /\ outputs_ = lastAdd.outputs)

\* C1 witness: B, which requires X and produces Y, was rejected after a pass
\* that does not produce X had been registered.
C1_Witness ==
  /\ MissingInputCase
  /\ aborted
  /\ Len(passes_) = 1
  /\ lastAdd.pass = [inputs |-> <<"X">>, outputs |-> <<"Y">>]

\* The last add() was given a pass with an output that a pass registered
\* before it already produces.
DuplicateOutputCase ==
  /\ lastAdd.called
  /\ \E j \in 1..Len(lastAdd.pass.outputs) :
       ProducedBy(lastAdd.passes, lastAdd.pass.outputs[j])

\* C2: an add() of a pass that declares an output which an earlier-registered
\* pass already produces aborts the process; the pass is not appended and
\* every capability registered before keeps its recorded producer.
C2_DuplicateOutputAborts ==
  DuplicateOutputCase =>
    /\ aborted
    /\ passes_ = lastAdd.passes
    /\ \A e \in lastAdd.outputs : e \in outputs_ /\ Producer(outputs_, e[1]) = e[2]

\* C2 witness: two passes both produce X (the second has all its inputs); the
\* second was rejected and pass 0 is still the producer of X.
C2_Witness ==
  /\ DuplicateOutputCase
  /\ ~MissingInputCase
  /\ aborted
  /\ Len(passes_) = 1
  /\ passes_[1].outputs = <<"X">>
  /\ lastAdd.pass.outputs = <<"X">>
  /\ Producer(outputs_, "X") = 0

\* C3: foreach hands the passes to fn in registration order (pass ids 0, 1,
\* 2, ...), each at most once, and a failed result is always the last one of
\* the run: the loop has returned and invoked nothing after it.
C3_InOrderStopAtFailure ==
  /\ Len(invoked) <= Len(passes_)
  /\ Len(fnres) = Len(invoked)
  /\ \A i \in 1..Len(invoked) : invoked[i] = i - 1
  /\ \A i \in 1..Len(fnres) : ~fnres[i].ok => (i = Len(fnres) /\ pc = "idle")

\* C3 witness: with two passes registered, the first failed and the second
\* was never invoked.
C3_Witness ==
  /\ pc = "idle"
  /\ Len(passes_) = 2
  /\ invoked = <<0>>
  /\ ~fnres[1].ok

\* The run of foreach has returned because the last invoked pass failed.
FailedRun == pc = "idle" /\ Len(fnres) > 0 /\ ~fnres[Len(fnres)].ok

DiagsOf(list) == {list[i] : i \in 1..Len(list)}

\* C4: when a pass fails, foreach returns a failed result whose errors are
\* exactly the failing pass's errors and whose warnings contain every warning
\* returned by the passes that ran successfully before it.
C4_FailureKeepsWarnings ==
  FailedRun =>
    /\ ~ret.ok
    /\ ret.errs = fnres[Len(fnres)].errs
    /\ \A i \in 1..(Len(fnres) - 1) : DiagsOf(fnres[i].warns) \subseteq DiagsOf(ret.warns)

\* C4 witness: the second pass failed after the first returned two warnings.
C4_Witness ==
  /\ FailedRun
  /\ Len(fnres) = 2
  /\ Len(fnres[1].warns) = 2
  /\ Len(ret.warns) >= 2

\* P1 succeeded with warnings w1, w2 and then P2 failed with one error and
\* warning w3.
C5_Case ==
  /\ FailedRun
  /\ Len(fnres) = 2
  /\ fnres[1] = Success(DiagList(0, "w", 2))
  /\ fnres[2] = Failure(DiagList(1, "e", 1), DiagList(1, "w", 1))

\* C5: in that case the result of foreach has exactly 1 error and exactly the
\* 3 warnings w1, w2, w3 in emission order.
C5_WarningsInEmissionOrder ==
  C5_Case =>
    /\ Len(ret.errs) = 1
    /\ ret.warns = <<Diag(0, "w", 1), Diag(0, "w", 2), Diag(1, "w", 1)>>

-----------------------------------------------------------------------------
(* Claims about deferred types, checked under SpecType.  last.ran holds    *)
(* the stored FutureTypes whose computation the last access ran, each with *)
(* what its result_ held before; last.hits those that answered from their  *)
(* result_; last.reent the accesses made to a FutureType while it was      *)
(* running; last.reads the failed children that a compound expression's    *)
(* computation came upon.                                                  *)

C7_ReentrantAccessNotValid == \A e \in last.reent : e.ret = FALSE

\* C8: resolving a type terminates, also when a FutureType refers to itself
\* directly or through others: the calls of valid() never nest deeper than
\* MaxDepth, which is more than the FutureTypes there are to enter.
C8_ResolutionTerminates == ~last.overflow

\* C8 witness: an access came back after it had reached a FutureType that
\* was running, that is, after it had gone round a cycle.
C8_Witness ==
  /\ last.op = "access"
  /\ last.reent # {}
  /\ ~last.overflow

\* C9: when a compound expression (Binop, Unop, Ternary, FieldAccess,
\* ArrayAccess, Tuple) finds the type of a sub-expression failed, its own
\* computation returns that error: not a type, and without crashing; when
\* the compound expression is the one asked, the access reports not valid.
C9_FailurePropagates ==
  /\ \A e \in last.reads : e.err.tag = "error" /\ e.out = ErrorRes(e.err.val)
  /\ (\E e \in last.reads : e.root = 0 /\ e.node = last.node)
       => (last.ret = "invalid" /\ ~crashed)

\* C9 witness: a Binop whose operand is a variable of unknown type was asked
\* for its type and reported not valid.
C9_Witness ==
  /\ last.op = "access"
  /\ last.ret = "invalid"
  /\ \E e \in last.reads :
       /\ e.root = 0
       /\ e.node = last.node
       /\ e.kind = "Binop"
       /\ e.err = ErrorRes("unknown type")

-----------------------------------------------------------------------------
(* Claims about ErrorOr's merging constructor, checked under SpecMerge.    *)

\* C10: merging two failed results gives a failed result whose errors are
\* the first result's errors followed by the second result's errors.
C10_BothFailedConcatenates ==
  (merged.done /\ ~operands[1].ok /\ ~operands[2].ok) =>
    (~merged.res.ok /\ merged.res.errs = operands[1].errs \o operands[2].errs)

\* Exactly one of the two merged results had failed.
OneFailedCase == merged.done /\ operands[1].ok # operands[2].ok

C12_MergeAssociative ==
  nested.done =>
    /\ nested.left.ok = nested.right.ok
    /\ nested.left.errs = nested.right.errs
    /\ nested.left.warns = nested.right.warns

\* C12 witness: a value, a failure and a value, each with a warning, were
\* merged both ways.
C12_Witness ==
  /\ nested.done
  /\ operands[1] = Success(<<"w1">>)
  /\ operands[2] = Failure(<<"e2", "e1">>, <<"w1">>)
  /\ operands[3] = Success(<<"w1">>)
  /\ nested.left = Failure(<<"e2", "e1">>, <<"w1", "w1", "w1">>)

\* A failed result without a single error.
FailedWithoutErrors(r) == ~r.ok /\ r.errs = <<>>

\* C13: no result, constructed or produced by merging, is in the failed
\* state with zero error diagnostics.
C13_FailedHasErrors ==
  /\ \A i \in 1..Len(operands) : ~FailedWithoutErrors(operands[i])
  /\ merged.done => ~FailedWithoutErrors(merged.res)
  /\ nested.done => (~FailedWithoutErrors(nested.left) /\ ~FailedWithoutErrors(nested.right))

-----------------------------------------------------------------------------
(* Claims about the Visitor, checked under SpecVisit.  trav.log holds the  *)
(* events of the last traversal in order: "read" of a child slot, "visit"  *)
(* and "ret" (entry to and return from the visit of a node), "replace"     *)
(* (the hook's call, with the node it returned) and "store" (the slot's    *)
(* content after the assignment).                                          *)

\* The nodes that the last traversal visited.
Visited == {trav.log[k].node : k \in {j \in 1..Len(trav.log) : trav.log[j].ev = "visit"}}

DiagSet(list) == {list[i] : i \in 1..Len(list)}

\* C14: the result returned for the root holds the errors and the warnings
\* of the visits of all its descendants, also of those held in lists.
C14_RootAggregatesAll ==
  trav.done =>
    \A n \in Visited :
      trav.before[n].kind = "Leaf" =>
        /\ DiagSet(LeafResult(trav.before[n], n).errs) \subseteq DiagSet(trav.res.errs)
        /\ DiagSet(LeafResult(trav.before[n], n).warns) \subseteq DiagSet(trav.res.warns)

\* C15: visitAndReplace on a child slot reads the node in the slot, visits
\* it, calls the replace hook with the node and the visit's result once the
\* visit has returned, and stores what the hook returned in the slot before
\* the parent's visit returns; with the default hook the slot holds the
\* original node afterwards.
C15_VisitThenReplaceThenStore ==
  trav.done =>
    \A k \in 1..Len(trav.log) :
      trav.log[k].ev = "read" =>
        LET e == trav.log[k]
            leafOk == trav.before[e.node].kind = "Leaf" /\ ~trav.before[e.node].fails
        IN /\ e.node = trav.before[e.par].kids[e.slot]
           /\ trav.log[k + 1] = Event("visit", 0, 0, e.node, 0)
           /\ \E t \in (k + 2)..(Len(trav.log) - 3) :
                /\ trav.log[t] = Event("ret", 0, 0, e.node, 0)
                /\ trav.log[t + 1].ev = "replace"
                /\ trav.log[t + 1].par = e.par
                /\ trav.log[t + 1].slot = e.slot
                /\ trav.log[t + 1].node = e.node
                /\ (trav.log[t + 1].to # e.node) = (trav.hook = "fold" /\ leafOk)
                /\ trav.log[t + 2] = Event("store", e.par, e.slot, e.node, trav.log[t + 1].to)
                /\ vnodes[e.par].kids[e.slot] = trav.log[t + 1].to
                /\ \E q \in (t + 3)..Len(trav.log) : trav.log[q] = Event("ret", 0, 0, e.par, 0)
           /\ trav.hook = "default" => vnodes[e.par].kids[e.slot] = e.node

\* C15 witness: a traversal with a replacing hook stored a new node in a
\* slot of a Binop and left the other slot as it was.
C15_Witness ==
  /\ trav.done
  /\ trav.hook = "fold"
  /\ trav.before[trav.root].kind = "Binop"
  /\ \E k \in 1..Len(trav.log) :
       trav.log[k].ev = "store" /\ trav.log[k].par = trav.root
         /\ trav.log[k].to # trav.log[k].node
  /\ \E k \in 1..Len(trav.log) :
       trav.log[k].ev = "store" /\ trav.log[k].par = trav.root
         /\ trav.log[k].to = trav.log[k].node

\* C16: the child slots of a node are visited in declaration order, left
\* to right, and in the same order on every traversal.
C16_SlotsInDeclarationOrder ==
  trav.done =>
    /\ \A k, l \in 1..Len(trav.log) :
         (k < l /\ trav.log[k].ev = "read" /\ trav.log[l].ev = "read"
            /\ trav.log[k].par = trav.log[l].par)
           => trav.log[k].slot < trav.log[l].slot
    /\ trav.prev # <<>> => SlotsRead(trav.log) = trav.prev

\* The lists that the last traversal went through.
ListsVisited ==
  {n \in Visited : n \in DOMAIN trav.before /\ trav.before[n].kind = "Tuple"}

\* The slots of node p in the order the last traversal read them.
RECURSIVE SlotsReadOf(_, _)
SlotsReadOf(p, log) ==
  IF log = <<>> THEN <<>>
  ELSE LET rest == SlotsReadOf(p, SubSeq(log, 2, Len(log)))
       IN IF log[1].ev = "read" /\ log[1].par = p THEN <<log[1].slot>> \o rest ELSE rest

\* C17: traversing a list of children visits every element once, in list
\* order; an element may be replaced, where it stands; the list keeps its
\* length and every other element keeps its position.
C17_ListShapeKept ==
  trav.done =>
    \A p \in ListsVisited :
      LET old == trav.before[p].kids
          new == vnodes[p].kids
      IN /\ Len(new) = Len(old)
         /\ SlotsReadOf(p, trav.log) = [i \in 1..Len(old) |-> i]
         /\ \A k \in 1..Len(trav.log) :
              (trav.log[k].ev = "read" /\ trav.log[k].par = p)
                => trav.log[k].node = old[trav.log[k].slot]
         /\ \A k \in 1..Len(trav.log) :
              (trav.log[k].ev = "replace" /\ trav.log[k].par = p)
                => new[trav.log[k].slot] = trav.log[k].to

\* C17 witness: a list of two elements was traversed with a replacing hook;
\* the first element stayed, the second was replaced.
C17_Witness ==
  /\ trav.done
  /\ trav.hook = "fold"
  /\ trav.before[trav.root].kind = "Tuple"
  /\ Len(vnodes[trav.root].kids) = 2
  /\ vnodes[trav.root].kids[1] = trav.before[trav.root].kids[1]
  /\ vnodes[trav.root].kids[2] # trav.before[trav.root].kids[2]

-----------------------------------------------------------------------------
(* Claims about the return-path pass, checked under SpecReturn.            *)
(* analysis.ifs and analysis.subs hold what the visit of each If and of    *)
(* each Subprog returned.                                                  *)

\* A statement that returns on all paths: a `return`; an `if` whose both
\* blocks contain such a statement; a block that contains one.
RECURSIVE ReturnsOnAllPaths(_)
ReturnsOnAllPaths(n) ==
  LET node == rnodes[n]
      some(list) == \E i \in 1..Len(list) : ReturnsOnAllPaths(list[i])
  IN CASE node.kind = "Jump" -> node.ident = "RETURN"
       [] node.kind = "Block" -> some(node.stmts)
       [] node.kind = "If" -> node.hasElse /\ some(node.stmts) /\ some(node.elses)
       [] OTHER -> FALSE

\* The `if` statements of the program that the pass came to.
IfsReached ==
  {n \in 1..Len(rnodes) :
     rnodes[n].kind = "If"
       /\ \E m \in 1..Len(rnodes) :
            rnodes[m].kind = "Subprog" /\ ~rnodes[m].void
              /\ \E i \in 1..Len(rnodes[m].stmts) : rnodes[m].stmts[i] = n}

\* C18: an `if` is treated as returning exactly when its if-block and its
\* else-block each contain a returning statement; an `if` without an else
\* block is never treated as returning, and its analysis completes.
C18_IfReturnsIffBothBlocks ==
  analysis.done =>
    /\ \A e \in analysis.ifs : e.ret = ReturnsOnAllPaths(e.node)
    /\ (\E n \in IfsReached : ~rnodes[n].hasElse) => ~analysis.crashed

\* C19: a block statement that contains a `return` (or an `if` whose both
\* blocks return) makes the statement list around it returning: a non-void
\* function with such a block in its body is accepted.
C19_NestedBlockReturns ==
  analysis.done =>
    \A e \in analysis.subs :
      (\E i \in 1..Len(rnodes[e.node].stmts) :
         /\ rnodes[rnodes[e.node].stmts[i]].kind = "Block"
         /\ ReturnsOnAllPaths(rnodes[e.node].stmts[i]))
        => e.ret

\* A function the pass has to accept: void, or some statement of its body
\* returns on all paths.
Accepted(n) ==
  rnodes[n].void
    \/ \E i \in 1..Len(rnodes[n].stmts) : ReturnsOnAllPaths(rnodes[n].stmts[i])

\* The functions of the program that must be rejected, in program order.
Rejected == SelectSeq(rstack, LAMBDA n : ~Accepted(n))

\* C20: the pass succeeds on a program whose functions are all void or
\* return on every path; on a program with a non-void function that falls
\* through, or whose only return is in a one-sided `if`, it fails with a
\* diagnostic that carries that function's location.
C20_PassAcceptsAndRejects ==
  analysis.done =>
    /\ ~analysis.crashed
    /\ analysis.ok = (Rejected = <<>>)
    /\ Rejected # <<>> => analysis.errors = <<NotAllPaths(Rejected[1])>>

-----------------------------------------------------------------------------
(* Claims about the portability pass and the node-count pass, checked     *)
(* under SpecPort.                                                         *)

\* The constructs that AOT does not support.
NonPortable(node) ==
  \/ node.kind \in {"PositionalParameter", "Cast"}
  \/ node.kind = "Builtin" /\ node.tag = "curtask"
  \/ node.kind = "Call" /\ node.tag \in {"kaddr", "uaddr", "cgroupid"}
  \/ node.kind = "AttachPoint" /\ node.tag \in {"usdt", "watchpoint", "asyncwatchpoint"}

\* C21: the portability pass records one diagnostic for every non-portable
\* construct of the tree, wherever it is, and fails exactly when it recorded
\* a diagnostic.
C21_OneDiagPerConstruct ==
  port.done =>
    /\ \A n \in 1..Len(port.before) :
         NonPortable(port.before[n]) =>
           Cardinality({i \in 1..Len(port.errors) : port.errors[i].loc = n}) = 1
    /\ \A i \in 1..Len(port.errors) : NonPortable(port.before[port.errors[i].loc])
    /\ port.ok = (port.errors = <<>>)

C23_FailsIffOverLimit ==
  counter.done =>
    /\ counter.ok = ~(counter.count > counter.max)
    /\ ~counter.ok => counter.log = <<CountDiag(counter.count, counter.max)>>

-----------------------------------------------------------------------------
(* Claims about constant folding, checked under SpecFold.                  *)

\* An integer expression of literals and arithmetic operators.
RECURSIVE IntConst(_, _)
IntConst(nodes, n) ==
  \/ nodes[n].kind = "Integer"
  \/ /\ nodes[n].kind = "Binop"
     /\ nodes[n].op \in {"PLUS", "MUL"}
     /\ IntConst(nodes, nodes[n].kids[1])
     /\ IntConst(nodes, nodes[n].kids[2])

\* A string expression: literals, str() of a literal or of a positional
\* parameter, and concatenations of these.
RECURSIVE StrConst(_, _)
StrConst(nodes, n) ==
  \/ nodes[n].kind = "String"
  \/ /\ nodes[n].kind = "Call"
     /\ nodes[nodes[n].kids[1]].kind \in {"String", "Integer", "PositionalParameter"}
  \/ /\ nodes[n].kind = "Binop"
     /\ nodes[n].op = "PLUS"
     /\ StrConst(nodes, nodes[n].kids[1])
     /\ StrConst(nodes, nodes[n].kids[2])

\* The value of such an expression, evaluated directly.
RECURSIVE ValueOf(_, _)
ValueOf(nodes, n) ==
  LET node == nodes[n]
      l == ValueOf(nodes, node.kids[1])
      r == ValueOf(nodes, node.kids[2])
  IN CASE node.kind = "Integer" -> node.n
       [] node.kind = "String" -> node.str
       [] node.kind = "Call" ->
            LET arg == nodes[node.kids[1]]
            IN CASE arg.kind = "String" -> arg.str
                 [] arg.kind = "Integer" -> to_string(arg.n)
                 [] arg.kind = "PositionalParameter" -> GetParam(arg.n)
       [] node.kind = "Binop" /\ node.op = "MUL" -> l * r
       [] node.kind = "Binop" /\ node.op = "PLUS" /\ IntConst(nodes, n) -> l + r
       [] node.kind = "Binop" /\ node.op = "PLUS" -> l \o r

\* C24: FoldConstants replaces an expression of integer literals and
\* arithmetic, or of string literals, concatenation and str() of a literal
\* or positional parameter, by one literal node that holds the expression's
\* value.
C24_FoldsToLiteral ==
  folding.done =>
    LET before == folding.before
        result == fnodes[fstack[1]]
    IN /\ IntConst(before, folding.root)
            => result.kind = "Integer" /\ result.n = ValueOf(before, folding.root)
       /\ StrConst(before, folding.root)
            => result.kind = "String" /\ result.str = ValueOf(before, folding.root)

-----------------------------------------------------------------------------
(* Claims about the config pass, checked under SpecConfig.                 *)

\* The assignment may be applied: a known option, a literal of its kind,
\* and 0 or 1 for a boolean option.
Acceptable(a) ==
  \/ a.config_var \in IntKeys /\ a.expr.kind = "Integer"
  \/ a.config_var \in StringKeys /\ a.expr.kind = "String"
  \/ a.config_var \in BoolKeys /\ a.expr.kind = "Integer" /\ a.expr.n \in {0, 1}

\* C25: an assignment changes the configuration only if its option is known
\* and its right-hand side is a literal of the option's kind; a rejected
\* assignment leaves the configuration as it was and makes the pass fail.
C25_RejectedAssignmentFailsPass ==
  configured.done =>
    \A i \in 1..Len(assignments) :
      ~Acceptable(assignments[i]) =>
        /\ configured.trace[i + 1] = configured.trace[i]
        /\ ~configured.ok

-----------------------------------------------------------------------------
(* Claims about the type rules, checked under SpecRules.                   *)

\* C26: the type of a FieldAccess resolves, to the field's type, exactly
\* when the operand is a record that has the field; otherwise the result is
\* a type error.
C26_FieldAccessRule ==
  resolved.rule = "FieldAccess" =>
    /\ ~resolved.crashed
    /\ IF IsRecordTy(resolved.lht) /\ HasField(resolved.lht, resolved.field)
       THEN resolved.res = TypeRes(FieldTypeOfF)
       ELSE resolved.res.tag = "error"

\* C27: a Binop on two arrays is accepted exactly when the operator is EQ
\* or NE and the arrays have the same element type and the same number of
\* elements; otherwise the result is a type error.
C27_ArrayComparisonRule ==
  (resolved.rule = "Binop" /\ IsArrayTy(resolved.lht) /\ IsArrayTy(resolved.rht)) =>
    /\ ~resolved.crashed
    /\ IF /\ resolved.op \in {"EQ", "NE"}
          /\ GetElementTy(resolved.lht) = GetElementTy(resolved.rht)
          /\ GetNumElements(resolved.lht) = GetNumElements(resolved.rht)
       THEN resolved.res.tag = "type"
       ELSE resolved.res.tag = "error"

-----------------------------------------------------------------------------
(* A claim about ASTContext, checked under SpecVisit: vnodes is the        *)
(* context's nodes_, and a node's handle is its index.                     *)

\* C28: a node made by make_node stays owned by the context: nodes_ only
\* grows, every handle handed out keeps naming the same node as more nodes
\* are made, and storing a replacement in a parent's slot does not destroy
\* the node that was there.
C28_NodesStayOwned ==
  [][/\ Len(vnodes') >= Len(vnodes)
     /\ \A n \in 1..Len(vnodes) :
          /\ vnodes'[n].kind = vnodes[n].kind
          /\ vnodes'[n].fails = vnodes[n].fails]_vars

\* C28 witness: a traversal made a new node and stored it in a slot; the
\* node that was in the slot is still in the context.
C28_Witness ==
  /\ trav.done
  /\ Len(vnodes) > Len(trav.before)
  /\ \E k \in 1..Len(trav.log) :
       /\ trav.log[k].ev = "store"
       /\ trav.log[k].to # trav.log[k].node
       /\ vnodes[trav.log[k].par].kids[trav.log[k].slot] = trav.log[k].to
       /\ vnodes[trav.log[k].node] = trav.before[trav.log[k].node]


-----------------------------------------------------------------------------
(* Claims about what PassManager::add leaves registered *)

\* The pass with id `id` lists capability t among its outputs().
Declares(id, t) ==
  /\ id \in 0..(Len(passes_) - 1)
  /\ \E j \in 1..Len(passes_[id + 1].outputs) : passes_[id + 1].outputs[j] = t

\* C29: as long as no add has aborted, every registered output maps to exactly
\* one registered pass, the one that declared it; every input of a registered
\* pass is an output registered by a pass added strictly before it, so never
\* its own; and no registered pass lists the same output twice.
C29_RegistryWellFormed ==
  ~aborted =>
    /\ \A e \in outputs_ : Declares(e[2], e[1])
    /\ \A e1 \in outputs_ : \A e2 \in outputs_ : e1[1] = e2[1] => e1 = e2
    /\ \A p \in 1..Len(passes_) :
         /\ \A j \in 1..Len(passes_[p].outputs) :
              <<passes_[p].outputs[j], p - 1>> \in outputs_
         /\ \A i \in 1..Len(passes_[p].inputs) :
              \E e \in outputs_ : e[1] = passes_[p].inputs[i] /\ e[2] < p - 1
         /\ \A j \in 1..Len(passes_[p].outputs) :
              \A k \in 1..Len(passes_[p].outputs) :
                passes_[p].outputs[j] = passes_[p].outputs[k] => j = k

\* Two passes are registered and the second consumes what the first produces.
C29_Witness ==
  /\ ~aborted
  /\ lastAdd.called
  /\ Len(passes_) = 2
  /\ passes_[1] = [inputs |-> <<>>, outputs |-> <<"X">>]
  /\ passes_[2] = [inputs |-> <<"X">>, outputs |-> <<"Y">>]
  /\ outputs_ = {<<"X", 0>>, <<"Y", 1>>}

-----------------------------------------------------------------------------
(* Claims about FunctionRegistry (SpecRegistry) *)

\* The functions registered under the name of the last get when it ran.
Known == {n \in 1..lastGet.size : n \in DOMAIN all_funcs_ /\
            \E k \in 1..Len(funcs_by_fq_name_[lastGet.fq_name]) :
              funcs_by_fq_name_[lastGet.fq_name][k] = n}
NonBuiltins == {n \in Known : all_funcs_[n].origin # "Builtin"}

\* Every parameter of function n is given an argument of the last get that
\* can be implicitly cast to it; arguments beyond them need varargs.
TakesArgs(n) ==
  LET params == all_funcs_[n].params
      args == lastGet.arg_types
  IN /\ Len(args) >= Len(params)
     /\ Len(args) > Len(params) => all_funcs_[n].varargs
     /\ \A i \in 1..Len(params) : can_implicit_cast(args[i], params[i])

\* C30: when a non-builtin function has been added under the namespace and
\* name that get is asked for, get never returns a builtin: it returns the
\* non-builtin function when the arguments can be implicitly cast to its
\* parameters and null otherwise.
C30_NonBuiltinShadowsBuiltins ==
  (lastGet.called /\ NonBuiltins # {}) =>
    /\ lastGet.func # 0 =>
         /\ lastGet.func \in DOMAIN all_funcs_
         /\ all_funcs_[lastGet.func].origin # "Builtin"
    /\ \A n \in NonBuiltins :
         lastGet.func = (IF TakesArgs(n) THEN n ELSE 0)

\* get answered null for a shadowing function that cannot take the arguments
\* although a builtin of that name takes them.
C30_Witness ==
  /\ lastGet.called
  /\ lastGet.func = 0
  /\ \E n \in NonBuiltins : ~TakesArgs(n)
  /\ \E b \in Known :
       /\ all_funcs_[b].origin = "Builtin"
       /\ ValidCandidate(all_funcs_[b], lastGet.arg_types)

====
